---- MODULE Spec2Model ----
(***************************************************************************)
(* A model of flash-dns: the TTL/popularity cache (internal/cache), the     *)
(* racing upstream resolver and the server (internal/server), the filter   *)
(* list (internal/filter) and the message codec (internal/utils).          *)
(*                                                                         *)
(* Time is counted in whole seconds.  A byte slice is a sequence of small  *)
(* numbers; the nil slice is the empty sequence.                           *)
(***************************************************************************)
EXTENDS Integers, Sequences, FiniteSets, TLC

VARIABLES
  now,      \* the clock, in seconds
  entries,  \* DNSCache.entries: key -> the entry the map points to
  last,     \* the last call of the single caller
  tpc,      \* task -> where it is in Get
  tkey,     \* task -> the key of its Get, while the Get has not returned
  tnow,     \* task -> `now` as Get read it on entry, while the Get has not returned
  tref,     \* task -> the entry its Get holds: "map" (the one the map points to) or a slot of `dead`
  dead,     \* slot -> an entry the map no longer points to that some Get still holds
  ret,      \* task -> what its last call returned
  lastSet,  \* key -> the response of the last Set of this key by a task
  rpc,      \* where Resolve is: idle, select, blocked, got, done
  ctxErr,   \* ctx.Err() of the context passed to Resolve; NoErr while it is not done
  cancelled,    \* cancel() of queryCtx has been called
  apc,      \* upstream -> where its resolveUpstream goroutine is
  aout,     \* upstream -> how its goroutine ended
  responseChan, \* the buffer of the channel
  rresp,    \* the response Resolve returned
  rerr,     \* the error Resolve returned
  timer,    \* time.After(u.timeout): off, armed, fired
  sentOrder,    \* the upstreams whose result was sent on the channel, in order
  callCtx,  \* ctx.Err() at the moment Resolve was called
  inTime,   \* a result was sent while Resolve had not yet chosen a case
  spc,      \* where Start is: new, built, check, read, returned
  sret,     \* the error Start returned
  connClosed,   \* conn.Close() has been called on the listening socket
  filterMode,   \* Config.FilterMode
  cpc,      \* the cacheCleanUp task: none, run, exit
  stpc,     \* the statsReporter task: none, run, exit
  shpc,     \* the shutdownHandler task: none, run, exit
  hpc,      \* handleQuery task -> where it is
  hquery,   \* handleQuery task -> its query, 512 bytes
  hresp,    \* handleQuery task -> its response
  hout,     \* handleQuery task -> how it went: the branch it took, or Resolve's error
  hsteps,   \* handleQuery task -> what it has called so far, in order
  statistics,   \* DNSServer.statistics
  wire,     \* the datagrams written to clients, each with ctx.Err() at the time
  fdomains, \* FilterList.domains: the set of the keys of the map
  load,     \* the call of LoadFromFile in progress: the file and the tokens scanned so far
  arg,      \* the arguments of the last call of a function of the codec, filter or resolver
  out       \* what that call returned

cacheVars == <<now, entries, last>>
taskVars == <<tpc, tkey, tnow, tref, dead, ret, lastSet>>
resolveVars ==
  <<rpc, ctxErr, cancelled, apc, aout, responseChan, rresp, rerr, timer, sentOrder,
    callCtx, inTime>>
serverVars ==
  <<spc, sret, connClosed, filterMode, cpc, stpc, shpc, hpc, hquery, hresp, hout, hsteps,
    statistics, wire>>
callVars == <<fdomains, load, arg, out>>
vars ==
  <<now, entries, last, tpc, tkey, tnow, tref, dead, ret, lastSet, rpc, ctxErr, cancelled,
    apc, aout, responseChan, rresp, rerr, timer, sentOrder, callCtx, inTime,
    spc, sret, connClosed, filterMode, cpc, stpc, shpc, hpc, hquery, hresp, hout, hsteps,
    statistics, wire, fdomains, load, arg, out>>

(***************************************************************************)
(* Constants of the program.                                               *)
(***************************************************************************)
\* GRACE_PERIOD = 5 * time.Minute, in seconds.
GRACE_PERIOD == 300
POPULARITY_THRESHOLD == 5
\* PREFETCH_THRESHOLD = 0.8, kept as the fraction 4/5.
PREFETCH_NUM == 4
PREFETCH_DEN == 5

(***************************************************************************)
(* Bounds of the model.                                                    *)
(***************************************************************************)
\* DNSCache.maxSize; NewDNSCache sets it to CACHE_MAX_SIZE (1024), scaled down.
maxSize == 2
\* The clock takes at most MaxFine one-second steps after every grace-period jump,
\* and at most MaxJumps jumps of a whole grace period.
MaxFine == 1
MaxJumps == 1
\* Gets stop raising an entry's popularity at this value.
MaxPopularity == 3

\* The receive loop reads at most MaxDatagrams datagrams.
MaxDatagrams == 2
\* The longest string IsBlocked is asked about, the longest string Add is given, and
\* the number of domains in the list beyond which no more are added.
MaxDomainLen == 3
MaxStoredLen == 2
MaxDomains == 2
\* The longest label, the most items (labels and pointers) in a name, the most answer
\* records in a response, and the most bytes after a header that counts no answer.
MaxLabelLen == 2
MaxItems == 2
MaxAnswers == 2
MaxTail == 3
\* The most elements in the list NewUpstreamResolver is given.
MaxElements == 2

\* The handleQuery tasks, one per datagram.
Handlers == 1..MaxDatagrams

\* The zero Statistics.
NoStatistics == [blockedCount |-> 0, allowedCount |-> 0, cacheHits |-> 0, cacheMisses |-> 0]

\* A string is the sequence of its bytes.  The keys "", "a" and "b".
EmptyString == <<>>

Keys == {EmptyString, <<97>>, <<98>>}
Responses == {<<1>>, <<2>>}
TTLs == {0, 1}
nil == <<>>

\* len(u.upstreamAddrs)
NumUpstreams == 2
Upstreams == 1..NumUpstreams

\* What upstream u answers.
ResponseOf(u) == <<u>>

NoErr == "nil"
AllUpstreamsFailed == "all upstream dns failed"
CtxErrors == {"context canceled", "context deadline exceeded"}

\* The zero CacheEntry: what a map slot without an entry holds.
NoEntry ==
  [Response |-> nil, CreatedAt |-> 0, ExpiresAt |-> 0, LastAccess |-> 0,
   popularity |-> 0, originalTTL |-> 0]

(***************************************************************************)
(* DNS messages (internal/utils, internal/filter).  A message is the       *)
(* sequence of its bytes; byte i of the Go slice is element i + 1.         *)
(***************************************************************************)
\* binary.BigEndian.Uint16
Uint16(hi, lo) == hi * 256 + lo

\* make([]byte, n)
Zeros(n) == [i \in 1..n |-> 0]

\* copy(dst, src): dst afterwards
Copy(dst, src) == [i \in 1..Len(dst) |-> IF i <= Len(src) THEN src[i] ELSE dst[i]]

\* fmt.Sprintf("%d", n)
RECURSIVE Decimal(_)
Decimal(n) == IF n < 10 THEN <<48 + n>> ELSE Decimal(n \div 10) \o <<48 + (n % 10)>>

ErrTooShort == "query too short"
ErrDomainLength == "invalid domain name length"
ErrNoTypeClass == "query too short for QTYPE/QCLASS"

RECURSIVE parseLabelsNoDot(_, _, _)
parseLabelsNoDot(query, position, builder) ==
  IF ~(position < Len(query))
  THEN [err |-> NoErr, position |-> position, domain |-> builder]
  ELSE LET length == query[position + 1]
       IN IF length = 0
          THEN [err |-> NoErr, position |-> position + 1, domain |-> builder]
          ELSE IF length >= 192
          THEN parseLabelsNoDot(query, position + 2, builder)
          ELSE LET start == position + 1
               IN IF start + length > Len(query)
                  THEN [err |-> ErrDomainLength, position |-> start, domain |-> builder]
                  ELSE parseLabelsNoDot(query, start + length,
                                        builder \o SubSeq(query, start + 1, start + length))

\* The loop of ParseQuery over the labels, from `position` with `builder` written so far.
RECURSIVE parseLabels(_, _, _)
parseLabels(query, position, builder) ==
  IF ~(position < Len(query))
  THEN [err |-> NoErr, position |-> position, domain |-> builder]
  ELSE LET length == query[position + 1]
       IN IF length = 0
          THEN [err |-> NoErr, position |-> position + 1, domain |-> builder]
          ELSE IF length >= 192
          THEN parseLabels(query, position + 2, builder)
          ELSE LET dotted == IF Len(builder) > 0 THEN Append(builder, 46) ELSE builder
                   start == position + 1
               IN IF start + length > Len(query)
                  THEN [err |-> ErrDomainLength, position |-> start, domain |-> dotted]
                  ELSE parseLabels(query, start + length,
                                   dotted \o SubSeq(query, start + 1, start + length))

NoQueryInfo == [Domain |-> EmptyString, CacheKey |-> EmptyString, QType |-> 0, QClass |-> 0]

\* ParseQuery: <<queryInfo, err>>
ParseQueryKeepsInfo(query) ==
  IF Len(query) < 12 THEN <<NoQueryInfo, ErrTooShort>>
  ELSE LET l == parseLabels(query, 12, EmptyString)
           info == [Domain |-> l.domain, CacheKey |-> l.domain, QType |-> 0, QClass |-> 0]
       IN IF l.err # NoErr THEN <<info, l.err>>
          ELSE IF l.position + 4 > Len(query) THEN <<info, ErrNoTypeClass>>
          ELSE LET qtype == Uint16(query[l.position + 1], query[l.position + 2])
                   qclass == Uint16(query[l.position + 3], query[l.position + 4])
               IN <<[Domain |-> l.domain,
                     CacheKey |-> l.domain \o <<58>> \o Decimal(qtype),
                     QType |-> qtype, QClass |-> qclass],
                    NoErr>>
ParseQuery(query) ==
  IF Len(query) < 12 THEN <<NoQueryInfo, ErrTooShort>>
  ELSE LET l == parseLabels(query, 12, EmptyString)
           position == l.position
       IN IF l.err # NoErr THEN <<NoQueryInfo, l.err>>
          ELSE IF position + 4 > Len(query) THEN <<NoQueryInfo, ErrNoTypeClass>>
          ELSE LET qtype == Uint16(query[position + 1], query[position + 2])
                   qclass == Uint16(query[position + 3], query[position + 4])
               IN <<[Domain |-> l.domain,
                     CacheKey |-> l.domain \o <<58>> \o Decimal(qtype),
                     QType |-> qtype, QClass |-> qclass],
                    NoErr>>

\* skipName: the position afterwards
RECURSIVE skipName(_, _)
skipName(p, position) ==
  IF position >= Len(p) THEN position
  ELSE LET b == p[position + 1]
       IN IF b >= 192 THEN position + 2
          ELSE IF b = 0 THEN position + 1
          ELSE skipName(p, position + 1 + b)

\* The first loop of ExtractTTL: the position after q questions more.  A pass skips a
\* name and four bytes; q passes are q \div 2 passes and then the rest from the position
\* they reach, which is never before the one they start from.  (Halving keeps the
\* evaluation shallow for the largest counts.)
RECURSIVE skipQuestions(_, _, _)
skipQuestions(response, position, q) ==
  IF q = 0 THEN position
  ELSE IF q = 1 THEN skipName(response, position) + 4
  ELSE LET mid == skipQuestions(response, position, q \div 2)
       IN IF mid >= position THEN skipQuestions(response, mid, q - q \div 2) ELSE mid

\* binary.BigEndian.Uint32 of a uint32 that fits the integers of the model.
Uint32(b) == ((b[1] * 256 + b[2]) * 256 + b[3]) * 256 + b[4]

\* x < y for two uint32, each the sequence of its four bytes, high byte first.
LessUint32(x, y) ==
  \E i \in 1..4 : x[i] < y[i] /\ \A j \in 1..(i - 1) : x[j] = y[j]

RECURSIVE readAnswersNoRdata(_, _, _, _)
readAnswersNoRdata(response, position, a, minTTL) ==
  IF a = 0 THEN minTTL
  ELSE LET p == skipName(response, position)
       IN IF p + 10 > Len(response) THEN minTTL
          ELSE LET ttl == SubSeq(response, p + 5, p + 8)
               IN readAnswersNoRdata(response, p + 10, a - 1,
                                     IF LessUint32(ttl, minTTL) THEN ttl ELSE minTTL)

\* The second loop of ExtractTTL: minTTL, in its four bytes, after a answers more.
RECURSIVE readAnswers(_, _, _, _)
readAnswers(response, position, a, minTTL) ==
  IF a = 0 THEN minTTL
  ELSE LET p == skipName(response, position)
       IN IF p + 10 > Len(response) THEN minTTL
          ELSE LET ttl == SubSeq(response, p + 5, p + 8)
                   rdlen == Uint16(response[p + 9], response[p + 10])
               IN readAnswers(response, p + 10 + rdlen, a - 1,
                              IF LessUint32(ttl, minTTL) THEN ttl ELSE minTTL)

ExtractTTLOneDefault(response) ==
  IF Len(response) < 12 THEN 300
  ELSE LET questions == Uint16(response[5], response[6])
           answers == Uint16(response[7], response[8])
       IN Uint32(readAnswers(response, skipQuestions(response, 12, questions), answers,
                             <<0, 0, 1, 44>>))
ExtractTTL(response) ==
  IF Len(response) < 12 THEN 300
  ELSE LET questions == Uint16(response[5], response[6])
           answers == Uint16(response[7], response[8])
       IN Uint32(readAnswers(response, skipQuestions(response, 12, questions), answers,
                             <<0, 0, 14, 16>>))

\* response[2:4] = flags; response[6:8] = ancount
WithFlags(response, flags, ancount) ==
  [response EXCEPT ![3] = flags \div 256, ![4] = flags % 256,
                   ![7] = ancount \div 256, ![8] = ancount % 256]

\* filter.CreateBlockedResponse: the query with flags 0x8183 (33155) and no answer
CreateBlockedResponseKeepsAncount(query) ==
  IF Len(query) < 12 THEN query ELSE [query EXCEPT ![3] = 129, ![4] = 131]
CreateBlockedResponse(query) ==
  IF Len(query) < 12 THEN query ELSE WithFlags(query, 33155, 0)

\* filter.CreateNullResponse: the query with flags 0x8180 (33152), one answer, and after
\* len(query) a record: name pointer C0 0C, type 1, class 1, PutUint16 of 60 at the
\* first two bytes of the TTL field, RDLENGTH 4, address 0.0.0.0
CreateNullResponse(query) ==
  IF Len(query) < 12 THEN query
  ELSE WithFlags(query, 33152, 1)
         \o <<192, 12, 0, 1, 0, 1, 0, 60, 0, 0, 0, 4, 0, 0, 0, 0>>

\* unicode.ToLower of an ASCII byte
ToLowerByte(b) == IF b >= 65 /\ b <= 90 THEN b + 32 ELSE b
ToLower(str) == [i \in 1..Len(str) |-> ToLowerByte(str[i])]

\* strings.EqualFold, on ASCII strings
EqualFold(s, t) == ToLower(s) = ToLower(t)

\* unicode.IsSpace of an ASCII byte: \t \n \v \f \r and the space
IsSpaceByte(b) == b \in {9, 10, 11, 12, 13, 32}

RECURSIVE TrimLeft(_)
TrimLeft(str) ==
  IF str # <<>> /\ IsSpaceByte(Head(str)) THEN TrimLeft(Tail(str)) ELSE str

RECURSIVE TrimRight(_)
TrimRight(str) ==
  IF str # <<>> /\ IsSpaceByte(str[Len(str)])
  THEN TrimRight(SubSeq(str, 1, Len(str) - 1)) ELSE str

\* strings.TrimSpace
TrimSpace(str) == TrimRight(TrimLeft(str))

\* strings.TrimSuffix(str, ".")
TrimSuffixDot(str) ==
  IF str # <<>> /\ str[Len(str)] = 46 THEN SubSeq(str, 1, Len(str) - 1) ELSE str

\* strings.IndexRune(str, '.'), -1 when there is none
IndexDot(str) ==
  IF \E i \in 1..Len(str) : str[i] = 46
  THEN (CHOOSE i \in 1..Len(str) : str[i] = 46 /\ \A j \in 1..(i - 1) : str[j] # 46) - 1
  ELSE -1

\* One pass of the loop of FilterList.IsBlocked over the candidate `domain` (lines
\* 43-52): it returns, or goes on with domain[i:].  The function declares dotIndex and no
\* i, so that line 52 says at which end the candidate is cut and not where: i is given
\* to the pass, and an i outside the candidate is a slice out of range.
loopPass(domains, domain, i) ==
  IF domain \in domains THEN <<"return", TRUE>>
  ELSE LET dotIndex == IndexDot(domain)
       IN IF dotIndex = -1 THEN <<"return", FALSE>>
          ELSE IF i \notin 0..Len(domain) THEN <<"panic">>
          ELSE <<"next", SubSeq(domain, i + 1, Len(domain))>>

\* The loop of FilterList.IsBlocked, `indexes` being the values of i in its passes:
\* <<what it returns>>, or <<>> when with these values it has not returned.
RECURSIVE matchDomain(_, _, _)
matchDomain(domains, domain, indexes) ==
  LET r == loopPass(domains, domain, IF indexes = <<>> THEN 0 ELSE Head(indexes))
  IN IF r[1] = "return" THEN <<r[2]>>
     ELSE IF r[1] = "panic" \/ indexes = <<>> THEN <<>>
     ELSE matchDomain(domains, r[2], Tail(indexes))

\* FilterList.IsBlocked
IsBlocked(domains, domain, indexes) ==
  matchDomain(domains, ToLower(TrimSpace(TrimSuffixDot(domain))), indexes)

\* FilterList.Add: the map's keys afterwards
AddDomain(domains, domain) == domains \cup {ToLower(TrimSpace(domain))}

\* strings.HasPrefix
HasPrefix(str, prefix) ==
  Len(str) >= Len(prefix) /\ SubSeq(str, 1, Len(prefix)) = prefix

\* The places where the regular expression \|\|(.*)\^$ can start to match: a "||" (124 124)
\* with the line's last byte, a "^" (94), after it.
MatchStarts(line) ==
  {i \in 1..(Len(line) - 2) :
     line[i] = 124 /\ line[i + 1] = 124 /\ line[Len(line)] = 94}

\* regex.FindStringSubmatch(line): <<the match, the group>> of the leftmost match, or the
\* empty slice.
FindStringSubmatch(line) ==
  IF MatchStarts(line) = {} THEN <<>>
  ELSE LET i == CHOOSE j \in MatchStarts(line) : \A k \in MatchStarts(line) : j <= k
       IN <<SubSeq(line, i, Len(line)), SubSeq(line, i + 2, Len(line) - 1)>>

\* The body of the loop of LoadFromFile for one token of the scanner.
LoadLine(domains, text) ==
  LET line == TrimSpace(text)
  IN IF line = EmptyString \/ HasPrefix(line, <<33>>) \/ HasPrefix(line, <<91>>)
          \/ HasPrefix(line, <<64, 64>>)
     THEN domains
     ELSE LET domain == FindStringSubmatch(line)
          IN IF Len(domain) = 0 THEN domains ELSE AddDomain(domains, domain[2])

ErrLogger == "open /var/log/dnsServer.log: permission denied"
ErrOpen == "open: no such file or directory"
ErrRead == "read: input/output error"

\* FilterList.Count
Count(domains) == Cardinality(domains)

(***************************************************************************)
(* The datagrams, upstream answers and configurations of the model.        *)
(***************************************************************************)
\* A query for the A record of the one-letter name <<c>>, with transaction ID <<id, id + 16>>.
QueryFor(id, c) == <<id, id + 16, 1, 0, 0, 1, 0, 0, 0, 0, 0, 0, 1, c, 0, 0, 1, 0, 1>>

\* A datagram of 400 bytes whose third label runs past the end of a 512-byte buffer.
LongLabels == [i \in 1..400 |-> IF i \in {13, 205, 397} THEN 191 ELSE 97]

\* What clients send: "a" asked twice with different IDs, "B", and the long labels.
Datagrams == {QueryFor(1, 97), QueryFor(2, 97), QueryFor(3, 66), LongLabels}

\* The datagrams resolveUpstream may read from its connection for a query, and sends
\* on as they are.  Reply u of upstream u is the query's header and question with flags
\* 0x8180 and one answer: name pointer, type A, class IN, TTL u seconds, address
\* 10.0.0.u; reply -1 is reply 1 under another transaction ID; reply 0 is a datagram of
\* one byte.
UpstreamReplies == {-1, 0} \cup Upstreams
UpstreamReply(k, query) ==
  LET answer(u) == WithFlags(SubSeq(query, 1, skipName(query, 12) + 4), 33152, 1)
                     \o <<192, 12, 0, 1, 0, 1, 0, 0, 0, u, 0, 4, 10, 0, 0, u>>
  IN IF k = 0 THEN <<0>>
     ELSE IF k = -1 THEN [answer(1) EXCEPT ![1] = (@ + 1) % 256]
     ELSE answer(k)

\* FilterList.domains as loaded: "b"
FilterDomains == {<<98>>}

\* Config.FilterMode: "Null" and "nxdomain"
FilterModes == {<<78, 117, 108, 108>>, <<110, 120, 100, 111, 109, 97, 105, 110>>}

\* The cache keys of the datagrams that parse, and every key the cache is asked for.
QueryKeys ==
  {ParseQuery(Copy(Zeros(512), d))[1].CacheKey :
     d \in {x \in Datagrams : ParseQuery(Copy(Zeros(512), x))[2] = NoErr}}
AllKeys == Keys \cup QueryKeys

(***************************************************************************)
(* CacheEntry methods.                                                     *)
(***************************************************************************)
IsPopular(ce) == ce.popularity >= POPULARITY_THRESHOLD

\* now.After(ExpiresAt) && now.Before(ExpiresAt.Add(GRACE_PERIOD))
IsStaleNoAfter(ce, nw) == nw < ce.ExpiresAt + GRACE_PERIOD
IsStale(ce, nw) == nw > ce.ExpiresAt /\ nw < ce.ExpiresAt + GRACE_PERIOD

\* now.After(ExpiresAt.Add(GRACE_PERIOD))
IsCompletelyExpiredSliding(ce, nw) == nw > ce.LastAccess + GRACE_PERIOD
IsCompletelyExpiredNoGrace(ce, nw) == nw > ce.ExpiresAt
IsCompletelyExpired(ce, nw) == nw > ce.ExpiresAt + GRACE_PERIOD

\* age >= time.Duration(float64(ttl) * PREFETCH_THRESHOLD), in whole seconds
ShouldPrefetch(ce, nw) ==
  /\ IsPopular(ce)
  /\ (nw - ce.CreatedAt) * PREFETCH_DEN >= ce.originalTTL * PREFETCH_NUM

\* time.Since(time.Unix(LastAccess, 0)).Seconds()
TimeSinceLastAccess(ce, nw) == nw - ce.LastAccess

\* ce.popularity.Add(1)
increasePopularity(ce) == [ce EXCEPT !.popularity = @ + 1]

\* entry.LastAccess.Store(now.Unix())
LastAccessStoreKeeps(ce, tn) == ce
LastAccessStore(ce, tn) == [ce EXCEPT !.LastAccess = tn]

(***************************************************************************)
(* DNSCache.                                                               *)
(***************************************************************************)
Present(es) == {k \in AllKeys : es[k] # NoEntry}
\* len(c.entries)
Size(es) == Cardinality(Present(es))

\* The orders in which `for k, v := range c.entries` may visit the map.
Orders(S) ==
  {f \in [1..Cardinality(S) -> S] : \A i, j \in 1..Cardinality(S) : i # j => f[i] # f[j]}

\* score > worstScore, the scores being fractions <<numerator, denominator>>
ScoreGreater(a, b) == a[1] * b[2] > b[1] * a[2]

\* The loop of evictOne over the map in the order `order`: the final worstKey.
RECURSIVE evictScan(_, _, _, _, _, _)
evictScan(order, i, es, nw, worstKey, worstScore) ==
  IF i > Cardinality(DOMAIN order) THEN worstKey
  ELSE LET k == order[i]
           v == es[k]
           score == <<TimeSinceLastAccess(v, nw), v.popularity + 1>>
       IN IF ScoreGreater(score, worstScore)
          THEN evictScan(order, i + 1, es, nw, k, score)
          ELSE evictScan(order, i + 1, es, nw, worstKey, worstScore)

evictOne(es, nw, order) ==
  LET worstKey == evictScan(order, 1, es, nw, EmptyString, <<-1, 1>>)
  IN IF worstKey # EmptyString THEN [es EXCEPT ![worstKey] = NoEntry] ELSE es

\* &CacheEntry{...}; LastAccess.Store(now.Unix()); popularity.Store(1)
NewEntry(response, ttl, nw) ==
  [Response |-> response, CreatedAt |-> nw, ExpiresAt |-> nw + ttl,
   LastAccess |-> nw, popularity |-> 1, originalTTL |-> ttl]

\* c.entries[key] = entry
PutEntryShared(es, key, ce) == [k \in AllKeys |-> IF k = key \/ es[k] # NoEntry THEN ce ELSE es[k]]
PutEntry(es, key, ce) == [es EXCEPT ![key] = ce]

\* The map after Set, the map being visited in the order `order` if one entry is evicted.
SetEntriesEvictsAtCapacity(es, key, response, ttl, nw, order) ==
  LET es1 == IF Size(es) >= maxSize
             THEN evictOne(es, nw, IF order = <<>> THEN CHOOSE o \in Orders(Present(es)) : TRUE
                                   ELSE order)
             ELSE es
  IN PutEntry(es1, key, NewEntry(response, ttl, nw))
SetEntries(es, key, response, ttl, nw, order) ==
  LET es1 == IF Size(es) >= maxSize /\ es[key] = NoEntry
             THEN evictOne(es, nw, order)
             ELSE es
  IN PutEntry(es1, key, NewEntry(response, ttl, nw))

\* The map after Clean.
CleanEntries(es, nw) ==
  [k \in AllKeys |-> IF es[k] # NoEntry /\ IsCompletelyExpired(es[k], nw) THEN NoEntry ELSE es[k]]

(***************************************************************************)
(* The goroutines that read the cache.  Set and Clean run under the write  *)
(* lock and are one step each.  Get reads the clock as it is entered, and  *)
(* then is three sections: the lookup under the read lock; the update of   *)
(* the entry's counters and the tests on it, under no lock, a step for     *)
(* each access to the entry or the clock; the delete under the write lock. *)
(* Between two steps of a Get the other goroutines and the clock may take  *)
(* steps: the time a Get stores as last-access may be earlier than the     *)
(* time the entry it found was created.                                    *)
(*                                                                         *)
(* A Get holds the entry it found by pointer: when the map stops pointing  *)
(* to that entry, the Get keeps it.                                        *)
(***************************************************************************)
Tasks == {"t1", "t2"}

\* The goroutine of handleQuery task h.
ReaderOf(h) == "h" \o ToString(h)

\* Every goroutine that calls Get.
Readers == Tasks \cup {ReaderOf(h) : h \in Handlers}

NoRet == [op |-> "none", key |-> EmptyString, resp |-> nil, found |-> FALSE, needsRefresh |-> FALSE]

\* The entry reader t holds.
Deref(t) == IF tref[t] = "map" THEN entries[tkey[t]] ELSE dead[tref[t]]

\* The readers whose Get holds the entry the map points to under a key of K.
Holders(K) == {t \in Readers : tref[t] = "map" /\ tkey[t] \in K}

\* The map stops pointing to the entries it holds under the keys of K: the Gets that
\* hold one of them keep it, in a slot of its own.  <<tref, dead>> afterwards.
RECURSIVE Unlink(_, _, _)
Unlink(K, tr, dd) ==
  LET held == {k \in K : \E t \in Readers : tr[t] = "map" /\ tkey[t] = k}
  IN IF held = {} THEN <<tr, dd>>
     ELSE LET k == CHOOSE x \in held : TRUE
              free == {u \in Readers : \A t \in Readers : tr[t] # u}
              slot == CHOOSE u \in free : TRUE
              tr1 == [t \in Readers |-> IF tr[t] = "map" /\ tkey[t] = k THEN slot ELSE tr[t]]
          IN Unlink(K \ {k}, tr1, [dd EXCEPT ![slot] = entries[k]])

\* The slots no Get refers to hold nothing.
Sweep(tr, dd) == [u \in Readers |-> IF \E t \in Readers : tr[t] = u THEN dd[u] ELSE NoEntry]

\* The keys under which the map es1 no longer points to the entry it points to now, key
\* having been stored anew.
Replaced(es1, key) == {k \in Present(entries) : k = key \/ es1[k] = NoEntry}

\* Get is entered by reader t (lines 80-85): time.Now() is read before the read lock
\* is asked for, so that other goroutines and the clock may take steps between the
\* reading of the clock and the lookup.
GetEnterOf(t, key) ==
  /\ tpc[t] = "idle"
  /\ tpc' = [tpc EXCEPT ![t] = "lookup"]
  /\ tkey' = [tkey EXCEPT ![t] = key]
  /\ tnow' = [tnow EXCEPT ![t] = now]
  /\ ret' = [ret EXCEPT ![t] = NoRet]
  /\ UNCHANGED <<now, entries, tref, dead, lastSet, resolveVars, callVars>>

\* The lookup under the read lock (lines 87-89), and the return of a miss (91-93).
GetLookupOf(t) ==
  /\ tpc[t] = "lookup"
  /\ IF entries[tkey[t]] = NoEntry
     THEN /\ ret' = [ret EXCEPT ![t] = [NoRet EXCEPT !.op = "Get", !.key = tkey[t]]]
          /\ tpc' = [tpc EXCEPT ![t] = "idle"]
          /\ tkey' = [tkey EXCEPT ![t] = EmptyString]
          /\ tnow' = [tnow EXCEPT ![t] = 0]
          /\ tref' = tref
     ELSE /\ tpc' = [tpc EXCEPT ![t] = "touch"]
          /\ tref' = [tref EXCEPT ![t] = "map"]
          /\ UNCHANGED <<tkey, tnow, ret>>
  /\ UNCHANGED <<now, entries, dead, lastSet, resolveVars, callVars>>

\* The second section (lines 96-116), under no lock, one access to what the goroutines
\* share per step: increasePopularity (96); LastAccess.Store (97); IsCompletelyExpired,
\* which reads the clock (99); IsStale and ShouldPrefetch, which loads the popularity and
\* reads the clock again, and the return of a hit (108-116).
GetTouchOf(t) ==
  /\ tpc[t] \in {"touch", "store", "test", "refresh"}
  /\ LET held == Deref(t)
         entry == IF tpc[t] = "touch" THEN increasePopularity(held)
                  ELSE IF tpc[t] = "store" THEN LastAccessStore(held, tnow[t])
                  ELSE held
         expired == tpc[t] = "test" /\ IsCompletelyExpired(held, now)
         tr1 == IF expired \/ tpc[t] = "refresh" THEN [tref EXCEPT ![t] = "none"] ELSE tref
     IN /\ IF tref[t] = "map"
           THEN /\ entries' = [entries EXCEPT ![tkey[t]] = entry]
                /\ dead' = dead
           ELSE /\ entries' = entries
                /\ dead' = Sweep(tr1, [dead EXCEPT ![tref[t]] = entry])
        /\ tref' = tr1
        /\ tpc' = [tpc EXCEPT ![t] =
                     IF tpc[t] = "touch" THEN "store"
                     ELSE IF tpc[t] = "store" THEN "test"
                     ELSE IF expired THEN "delete"
                     ELSE IF tpc[t] = "test" THEN "refresh"
                     ELSE "idle"]
        /\ ret' = IF tpc[t] = "refresh"
                  THEN [ret EXCEPT ![t] =
                          [op |-> "Get", key |-> tkey[t], resp |-> held.Response,
                           found |-> TRUE,
                           needsRefresh |-> IsStale(held, tnow[t])
                                              \/ ShouldPrefetch(held, now)]]
                  ELSE ret
        /\ tkey' = IF tpc[t] = "refresh" THEN [tkey EXCEPT ![t] = EmptyString] ELSE tkey
        /\ tnow' = IF tpc[t] = "refresh" THEN [tnow EXCEPT ![t] = 0] ELSE tnow
  /\ UNCHANGED <<now, lastSet, resolveVars, callVars>>

\* The third section (lines 100-105): the delete by key under the write lock, and the
\* return of a miss.
GetDeleteOf(t) ==
  /\ tpc[t] = "delete"
  /\ entries' = [entries EXCEPT ![tkey[t]] = NoEntry]
  /\ LET u == Unlink({tkey[t]} \cap Present(entries), tref, dead)
     IN /\ tref' = u[1]
        /\ dead' = u[2]
  /\ tpc' = [tpc EXCEPT ![t] = "idle"]
  /\ ret' = [ret EXCEPT ![t] = [NoRet EXCEPT !.op = "Get", !.key = tkey[t]]]
  /\ tkey' = [tkey EXCEPT ![t] = EmptyString]
  /\ tnow' = [tnow EXCEPT ![t] = 0]
  /\ UNCHANGED <<now, lastSet, resolveVars, callVars>>

\* In the model no Get of key is entered once the reads counted, and the Gets under way
\* that have counted none yet, have brought the popularity of its entry to `cap`; an
\* entry that is stored while they are under way starts at popularity 1.
Unread(key, cap) ==
  (IF entries[key] = NoEntry THEN 1 ELSE entries[key].popularity)
    + Cardinality({t \in Readers : tkey[t] = key /\ tpc[t] \in {"lookup", "touch"}}) < cap

\* The clock advances by d seconds.
Advance(d) ==
  /\ IF d = 1 THEN (now % GRACE_PERIOD) < MaxFine
              ELSE now + d <= MaxJumps * GRACE_PERIOD + MaxFine
  /\ now' = now + d

(***************************************************************************)
(* The calls of one goroutine, the caller, which is the only one to use    *)
(* the cache: it makes its next call when the last one has returned.       *)
(* `last` is the last call: its arguments, what it returned, and what the  *)
(* caller saw of the entry as it entered the call; a Get that has not      *)
(* returned is "enter", "lookup" or "touch", the section it has done.      *)
(***************************************************************************)
Caller == "t1"

\* The caller is in none of its calls.
CallerIdle == tpc[Caller] = "idle"

\* What a caller knows of key's entry at time nw, from its timestamps alone.
Phase(es, key, nw) ==
  IF es[key] = NoEntry THEN "absent"
  ELSE IF nw > es[key].ExpiresAt + GRACE_PERIOD THEN "expired"
  ELSE IF nw > es[key].ExpiresAt THEN "elapsed"
  ELSE "fresh"

NoCall ==
  [op |-> "none", key |-> EmptyString, resp |-> nil, ttl |-> 0, found |-> FALSE,
   needsRefresh |-> FALSE, pre |-> "absent", imm |-> nil, n |-> 0]

\* Set ranges over the map only when it evicts.
SetOrders(es, key) ==
  IF Size(es) >= maxSize /\ es[key] = NoEntry THEN Orders(Present(es)) ELSE {<<>>}

\* Set, the caller noting `pre`.
SetNoting(key, response, ttl, pre) ==
  /\ \E order \in SetOrders(entries, key) :
       entries' = SetEntries(entries, key, response, ttl, now, order)
  /\ LET u == Unlink(Replaced(entries', key), tref, dead)
     IN /\ tref' = u[1]
        /\ dead' = u[2]
  /\ last' = [NoCall EXCEPT !.op = "Set", !.key = key, !.resp = response, !.ttl = ttl,
                            !.pre = pre]
  /\ UNCHANGED <<now, tpc, tkey, tnow, ret, lastSet, resolveVars, serverVars, callVars>>

Set(key, response, ttl) == SetNoting(key, response, ttl, "absent")

\* The caller enters Get.
CallerEnter(key, cap) ==
  /\ Unread(key, cap)
  /\ GetEnterOf(Caller, key)
  /\ LET imm == IF last.op = "Set" /\ last.key = key /\ last.ttl > 0 THEN last.resp ELSE nil
     IN last' = [NoCall EXCEPT !.op = "enter", !.key = key, !.imm = imm,
                               !.pre = Phase(entries, key, now)]
  /\ UNCHANGED serverVars

\* The lookup of the caller's Get.
CallerLookup ==
  /\ GetLookupOf(Caller)
  /\ last' = [last EXCEPT !.op = IF tpc'[Caller] = "idle" THEN "Get" ELSE "lookup"]
  /\ UNCHANGED serverVars

\* A step of the second section.
CallerTouch ==
  /\ GetTouchOf(Caller)
  /\ last' = IF tpc'[Caller] = "idle"
             THEN [last EXCEPT !.op = "Get", !.resp = ret'[Caller].resp, !.found = TRUE,
                               !.needsRefresh = ret'[Caller].needsRefresh]
             ELSE [last EXCEPT !.op = "touch"]
  /\ UNCHANGED serverVars

\* The third section.
CallerDelete ==
  /\ GetDeleteOf(Caller)
  /\ last' = [last EXCEPT !.op = "Get"]
  /\ UNCHANGED serverVars

Clean ==
  /\ entries' = CleanEntries(entries, now)
  /\ LET u == Unlink({k \in Present(entries) : entries'[k] = NoEntry}, tref, dead)
     IN /\ tref' = u[1]
        /\ dead' = u[2]
  /\ last' = [NoCall EXCEPT !.op = "Clean", !.n = Size(entries) - Size(entries')]
  /\ UNCHANGED <<now, tpc, tkey, tnow, ret, lastSet, resolveVars, serverVars, callVars>>

\* Time passes, between two calls of the caller or between two sections of its Get.
Tick(d) ==
  /\ Advance(d)
  /\ last' = IF CallerIdle THEN [NoCall EXCEPT !.op = "Tick"] ELSE last
  /\ UNCHANGED <<entries, taskVars, resolveVars, serverVars, callVars>>

(***************************************************************************)
(* The calls of the tasks, goroutines that use the cache side by side.     *)
(***************************************************************************)
TaskSet(t, key, response, ttl) ==
  /\ tpc[t] = "idle"
  /\ \E order \in SetOrders(entries, key) :
       entries' = SetEntries(entries, key, response, ttl, now, order)
  /\ LET u == Unlink(Replaced(entries', key), tref, dead)
     IN /\ tref' = u[1]
        /\ dead' = u[2]
  /\ ret' = [ret EXCEPT ![t] = [NoRet EXCEPT !.op = "Set", !.key = key, !.resp = response]]
  /\ lastSet' = [lastSet EXCEPT ![key] = response]
  /\ UNCHANGED <<now, last, tpc, tkey, tnow, resolveVars, serverVars, callVars>>

GetEnter(t, key) ==
  /\ Unread(key, MaxPopularity)
  /\ GetEnterOf(t, key)
  /\ UNCHANGED <<last, serverVars>>

GetLookup(t) ==
  /\ GetLookupOf(t)
  /\ UNCHANGED <<last, serverVars>>

GetTouch(t) ==
  /\ GetTouchOf(t)
  /\ UNCHANGED <<last, serverVars>>

GetDelete(t) ==
  /\ GetDeleteOf(t)
  /\ UNCHANGED <<last, serverVars>>

\* Clean, called by the cleanup task.
CleanStep ==
  /\ entries' = CleanEntries(entries, now)
  /\ LET u == Unlink({k \in Present(entries) : entries'[k] = NoEntry}, tref, dead)
     IN /\ tref' = u[1]
        /\ dead' = u[2]
  /\ UNCHANGED <<now, last, tpc, tkey, tnow, ret, lastSet, resolveVars, serverVars, callVars>>

\* Time passes while the tasks run.
Pass(d) ==
  /\ Advance(d)
  /\ UNCHANGED <<entries, last, taskVars, resolveVars, serverVars, callVars>>

\* No call of LoadFromFile is in progress.
NoLoad == [pc |-> "idle"]

InitProgram ==
  /\ now = 0
  /\ entries = [k \in AllKeys |-> NoEntry]
  /\ last = NoCall
  /\ tpc = [t \in Readers |-> "idle"]
  /\ tkey = [t \in Readers |-> EmptyString]
  /\ tnow = [t \in Readers |-> 0]
  /\ tref = [t \in Readers |-> "none"]
  /\ dead = [t \in Readers |-> NoEntry]
  /\ ret = [t \in Readers |-> NoRet]
  /\ lastSet = [k \in Keys |-> nil]
  /\ rpc = "idle"
  /\ ctxErr = NoErr
  /\ cancelled = FALSE
  /\ apc = [u \in Upstreams |-> "idle"]
  /\ aout = [u \in Upstreams |-> "none"]
  /\ responseChan = <<>>
  /\ rresp = nil
  /\ rerr = NoErr
  /\ timer = "off"
  /\ sentOrder = <<>>
  /\ callCtx = NoErr
  /\ inTime = FALSE
  /\ spc = "new"
  /\ sret = NoErr
  /\ connClosed = FALSE
  /\ filterMode = EmptyString
  /\ cpc = "none"
  /\ stpc = "none"
  /\ shpc = "none"
  /\ hpc = [h \in Handlers |-> "none"]
  /\ hquery = [h \in Handlers |-> nil]
  /\ hresp = [h \in Handlers |-> nil]
  /\ hout = [h \in Handlers |-> "none"]
  /\ hsteps = [h \in Handlers |-> <<>>]
  /\ statistics = NoStatistics
  /\ wire = <<>>
  /\ load = NoLoad

\* No function has been called yet; `out` is <<v>> once a call has returned v.
NoArg == [fn |-> "none"]
NoOut == <<>>

\* The state after construction: NewDNSCache, NewFilterList, and no call made.
Init ==
  /\ InitProgram
  /\ fdomains = {}
  /\ arg = NoArg
  /\ out = NoOut

\* Two keys and the whole range of the clock: no Set finds the cache full.
TimeKeys == {<<97>>, <<98>>}

NextCache ==
  \/ CallerIdle /\ \E key \in TimeKeys, response \in Responses, ttl \in TTLs :
                     Set(key, response, ttl)
  \/ \E key \in TimeKeys : CallerEnter(key, MaxPopularity)
  \/ CallerLookup
  \/ CallerTouch
  \/ CallerDelete
  \/ CallerIdle /\ Clean
  \/ \E d \in {1, GRACE_PERIOD} : Tick(d)

SpecCache == Init /\ [][NextCache]_vars

\* One key, read until it is popular, and the whole range of the clock.
PopularKeys == {<<97>>}

NextPopular ==
  \/ CallerIdle /\ \E key \in PopularKeys, response \in Responses, ttl \in TTLs :
                     Set(key, response, ttl)
  \/ \E key \in PopularKeys : CallerEnter(key, POPULARITY_THRESHOLD + 1)
  \/ CallerLookup
  \/ CallerTouch
  \/ CallerDelete
  \/ \E d \in {1, GRACE_PERIOD} : Tick(d)

SpecPopular == Init /\ [][NextPopular]_vars

\* More keys than the cache holds, the caller of Set noting what it saw of the key
\* just before.  Within these seconds no entry outlives its grace period, so that no
\* Get comes to its third section.
NextOverwrite ==
  \/ CallerIdle /\ \E key \in Keys, response \in Responses, ttl \in TTLs :
                     SetNoting(key, response, ttl, Phase(entries, key, now))
  \/ \E key \in Keys : CallerEnter(key, MaxPopularity - 1)
  \/ CallerLookup
  \/ CallerTouch
  \/ Tick(1)

SpecOverwrite == Init /\ [][NextOverwrite]_vars

\* More keys than the cache holds, within the first seconds: no entry outlives its
\* grace period, so that no Get comes to its third section.
NextEvict ==
  \/ CallerIdle /\ \E key \in Keys, response \in Responses, ttl \in TTLs :
                     Set(key, response, ttl)
  \/ \E key \in Keys : CallerEnter(key, MaxPopularity)
  \/ CallerLookup
  \/ CallerTouch
  \/ CallerIdle /\ Clean
  \/ Tick(1)

SpecEvict == Init /\ [][NextEvict]_vars

\* Every task sets and gets a key of its own; no time passes.
KeyOf(t) == IF t = "t1" THEN <<97>> ELSE <<98>>

NextDisjoint ==
  \E t \in Tasks :
    \/ \E response \in Responses, ttl \in TTLs : TaskSet(t, KeyOf(t), response, ttl)
    \/ GetEnter(t, KeyOf(t))
    \/ GetLookup(t)
    \/ GetTouch(t)

SpecDisjoint == Init /\ [][NextDisjoint]_vars

\* Tasks set and get the same key while the cleanup task runs and time passes.
SharedKeys == {<<97>>}

NextShared ==
  \/ \E t \in Tasks :
       \/ \E key \in SharedKeys, response \in Responses, ttl \in TTLs :
            TaskSet(t, key, response, ttl)
       \/ \E key \in SharedKeys : GetEnter(t, key)
       \/ GetLookup(t)
       \/ GetTouch(t)
       \/ GetDelete(t)
  \/ CleanStep
  \/ \E d \in {1, GRACE_PERIOD} : Pass(d)

SpecShared == Init /\ [][NextShared]_vars

(***************************************************************************)
(* UpstreamResolver.Resolve and its resolveUpstream goroutines.            *)
(*                                                                         *)
(* A select that finds a case ready on entry takes one of the ready cases; *)
(* otherwise it blocks and the first send, cancellation or timer to come   *)
(* decides it.  The timer of time.After starts when the select is entered. *)
(***************************************************************************)
\* The first select of Resolve: case <-ctx.Done()
DoneAtEntryNever(err) == FALSE
DoneAtEntry(err) == err # NoErr

\* queryCtx.Done(): queryCtx is cancelled by cancel() or with its parent ctx
QueryCtxDone == cancelled \/ ctxErr # NoErr

\* make(chan []byte, len(u.upstreamAddrs))
CapacityOneLess == NumUpstreams - 1
Capacity == NumUpstreams

\* What each case of the second select of Resolve returns: <<response, error>>.
CaseReturnTimeoutOnCtx(c, v, err) ==
  IF c = "result" THEN <<v, NoErr>> ELSE <<nil, AllUpstreamsFailed>>
CaseReturnDropsValue(c, v, err) ==
  IF c = "result" THEN <<<<0>>, NoErr>>
  ELSE IF c = "ctx" THEN <<nil, err>>
  ELSE <<nil, AllUpstreamsFailed>>
CaseReturnCtxErrOnTimeout(c, v, err) ==
  IF c = "result" THEN <<v, NoErr>> ELSE <<nil, err>>
CaseReturn(c, v, err) ==
  IF c = "result" THEN <<v, NoErr>>
  ELSE IF c = "ctx" THEN <<nil, err>>
  ELSE <<nil, AllUpstreamsFailed>>

\* Resolve is called: it returns at once if ctx is done, else it makes the channel and
\* queryCtx and starts one goroutine per upstream address.
ResolveCall ==
  /\ rpc = "idle"
  /\ callCtx' = ctxErr
  /\ IF DoneAtEntry(ctxErr)
     THEN /\ rpc' = "done"
          /\ rresp' = nil
          /\ rerr' = ctxErr
          /\ apc' = apc
     ELSE /\ rpc' = "select"
          /\ apc' = [u \in Upstreams |-> "dial"]
          /\ UNCHANGED <<rresp, rerr>>
  /\ UNCHANGED <<ctxErr, cancelled, aout, responseChan, timer, sentOrder, inTime>>
  /\ UNCHANGED <<cacheVars, taskVars, serverVars, callVars>>

\* Resolve reaches its second select.
SelectEnter ==
  /\ rpc = "select"
  /\ LET ready == (IF responseChan # <<>> THEN {"result"} ELSE {})
                    \cup (IF ctxErr # NoErr THEN {"ctx"} ELSE {})
     IN IF ready = {}
        THEN /\ rpc' = "blocked"
             /\ timer' = "armed"
             /\ UNCHANGED <<rresp, rerr, responseChan>>
        ELSE \E c \in ready :
               LET r == CaseReturn(c, IF c = "result" THEN Head(responseChan) ELSE nil, ctxErr)
               IN /\ rresp' = r[1]
                  /\ rerr' = r[2]
                  /\ responseChan' = IF c = "result" THEN Tail(responseChan) ELSE responseChan
                  /\ rpc' = IF c = "result" THEN "got" ELSE "done"
                  /\ timer' = "armed"
  /\ UNCHANGED <<ctxErr, cancelled, apc, aout, sentOrder, callCtx, inTime>>
  /\ UNCHANGED <<cacheVars, taskVars, serverVars, callVars>>

\* case response = <-responseChan: cancel(); return response, nil
ResolveCancelSkipped ==
  /\ rpc = "got"
  /\ rpc' = "done"
  /\ UNCHANGED <<ctxErr, cancelled, apc, aout, responseChan, rresp, rerr, timer, sentOrder,
                 callCtx, inTime>>
  /\ UNCHANGED <<cacheVars, taskVars, serverVars, callVars>>
ResolveCancel ==
  /\ rpc = "got"
  /\ cancelled' = TRUE
  /\ rpc' = "done"
  /\ UNCHANGED <<ctxErr, apc, aout, responseChan, rresp, rerr, timer, sentOrder, callCtx, inTime>>
  /\ UNCHANGED <<cacheVars, taskVars, serverVars, callVars>>

\* The timer of time.After(u.timeout) fires.
TimerFire ==
  /\ timer = "armed"
  /\ timer' = "fired"
  /\ IF rpc = "blocked"
     THEN LET r == CaseReturn("timeout", nil, ctxErr)
          IN /\ rresp' = r[1]
             /\ rerr' = r[2]
             /\ rpc' = "done"
     ELSE UNCHANGED <<rpc, rresp, rerr>>
  /\ UNCHANGED <<ctxErr, cancelled, apc, aout, responseChan, sentOrder, callCtx, inTime>>
  /\ UNCHANGED <<cacheVars, taskVars, serverVars, callVars>>

\* The context passed to Resolve ends: cancelled by its owner, or its deadline passes.
CtxCancel(err) ==
  /\ ctxErr = NoErr
  /\ ctxErr' = err
  /\ IF rpc = "blocked"
     THEN LET r == CaseReturn("ctx", nil, err)
          IN /\ rresp' = r[1]
             /\ rerr' = r[2]
             /\ rpc' = "done"
     ELSE UNCHANGED <<rpc, rresp, rerr>>
  /\ UNCHANGED <<cancelled, apc, aout, responseChan, timer, sentOrder, callCtx, inTime>>
  /\ UNCHANGED <<cacheVars, taskVars, serverVars, callVars>>

\* One step of I/O of resolveUpstream: net.Dial, conn.Write, conn.Read.  Each succeeds or
\* fails (the read also by its deadline); a failure is logged and ends the goroutine.
AttemptIOFailsCall(u, ok) ==
  /\ apc[u] \in {"dial", "write", "read"}
  /\ IF ok
     THEN /\ apc' = [apc EXCEPT ![u] = IF @ = "dial" THEN "write"
                                       ELSE IF @ = "write" THEN "read" ELSE "send"]
          /\ UNCHANGED <<aout, rpc, rresp, rerr>>
     ELSE /\ apc' = [apc EXCEPT ![u] = "exit"]
          /\ aout' = [aout EXCEPT ![u] = apc[u]]
          /\ IF rpc \in {"select", "blocked"}
             THEN /\ rpc' = "done"
                  /\ rresp' = nil
                  /\ rerr' = AllUpstreamsFailed
             ELSE UNCHANGED <<rpc, rresp, rerr>>
  /\ UNCHANGED <<ctxErr, cancelled, responseChan, timer, sentOrder, callCtx, inTime>>
  /\ UNCHANGED <<cacheVars, taskVars, serverVars, callVars>>
AttemptIO(u, ok) ==
  /\ apc[u] \in {"dial", "write", "read"}
  /\ IF ok
     THEN /\ apc' = [apc EXCEPT ![u] = IF @ = "dial" THEN "write"
                                       ELSE IF @ = "write" THEN "read" ELSE "send"]
          /\ aout' = aout
     ELSE /\ apc' = [apc EXCEPT ![u] = "exit"]
          /\ aout' = [aout EXCEPT ![u] = apc[u]]
  /\ UNCHANGED <<rpc, ctxErr, cancelled, responseChan, rresp, rerr, timer, sentOrder,
                 callCtx, inTime>>
  /\ UNCHANGED <<cacheVars, taskVars, serverVars, callVars>>

\* select { case responseChan <- bytes.Clone(response[:bytesRead]): case <-ctx.Done(): }
AttemptSend(u) ==
  /\ apc[u] = "send"
  /\ Len(responseChan) < Capacity
  /\ apc' = [apc EXCEPT ![u] = "exit"]
  /\ aout' = [aout EXCEPT ![u] = "sent"]
  /\ sentOrder' = Append(sentOrder, u)
  /\ inTime' = (inTime \/ rpc \in {"select", "blocked"})
  /\ IF rpc = "blocked"
     THEN LET r == CaseReturn("result", ResponseOf(u), ctxErr)
          IN /\ rresp' = r[1]
             /\ rerr' = r[2]
             /\ rpc' = "got"
             /\ responseChan' = responseChan
     ELSE /\ responseChan' = Append(responseChan, ResponseOf(u))
          /\ UNCHANGED <<rpc, rresp, rerr>>
  /\ UNCHANGED <<ctxErr, cancelled, timer, callCtx>>
  /\ UNCHANGED <<cacheVars, taskVars, serverVars, callVars>>

AttemptDrop(u) ==
  /\ apc[u] = "send"
  /\ QueryCtxDone
  /\ apc' = [apc EXCEPT ![u] = "exit"]
  /\ aout' = [aout EXCEPT ![u] = "dropped"]
  /\ UNCHANGED <<rpc, ctxErr, cancelled, responseChan, rresp, rerr, timer, sentOrder,
                 callCtx, inTime>>
  /\ UNCHANGED <<cacheVars, taskVars, serverVars, callVars>>

NextResolve ==
  \/ ResolveCall
  \/ SelectEnter
  \/ ResolveCancel
  \/ TimerFire
  \/ \E err \in CtxErrors : CtxCancel(err)
  \/ \E u \in Upstreams, ok \in BOOLEAN : AttemptIO(u, ok)
  \/ \E u \in Upstreams : AttemptSend(u)
  \/ \E u \in Upstreams : AttemptDrop(u)

SpecResolve == Init /\ [][NextResolve]_vars

\* Resolve runs whenever it can, and the timer it started fires.
ResolveFairness ==
  /\ WF_vars(ResolveCall)
  /\ WF_vars(SelectEnter)
  /\ WF_vars(ResolveCancel)
  /\ WF_vars(TimerFire)

SpecResolveFair == SpecResolve /\ ResolveFairness

\* A goroutine at its select runs: it takes a case that is ready.
AttemptFairness == \A u \in Upstreams : WF_vars(AttemptSend(u) \/ AttemptDrop(u))

SpecAttemptsFair == SpecResolve /\ ResolveFairness /\ AttemptFairness

(***************************************************************************)
(* DNSServer: Start with its receive loop, the three tasks it starts, and  *)
(* one handleQuery task per datagram received.  The context passed to      *)
(* Start is ctx, the one of ctxErr; CtxCancel is the shutdown.             *)
(*                                                                         *)
(* A handleQuery task takes one step per call that reads or writes what it *)
(* shares with others under one lock: the context, the filter and its      *)
(* counter, Set, the socket.  Its Get is the steps of Get, from the        *)
(* reading of the clock on, with the other tasks and cacheCleanUp running  *)
(* between them; the counter of hits or misses is a step of its own, after *)
(* Get has returned; its call of Resolve is two steps, the call and the    *)
(* return of one of the cases of Resolve's select.                         *)
(***************************************************************************)
ErrResolveAddr == "Failed to resolve address"
ErrListen == "Failed to listen"

\* The next handleQuery task to start.
NextHandler == CHOOSE h \in Handlers : hpc[h] = "none" /\ \A g \in 1..(h - 1) : hpc[g] # "none"

\* server.NewDNSServer(config, resolver, filterList)
NewDNSServer(mode) ==
  /\ spc = "new"
  /\ spc' = "built"
  /\ filterMode' = mode
  /\ UNCHANGED <<sret, connClosed, cpc, stpc, shpc, hpc, hquery, hresp, hout, hsteps,
                 statistics, wire>>
  /\ UNCHANGED <<cacheVars, taskVars, resolveVars, callVars>>

\* Start up to its loop: net.ResolveUDPAddr, net.ListenUDP, and the three tasks.
StartListen(outcome) ==
  /\ spc = "built"
  /\ IF outcome = NoErr
     THEN /\ spc' = "check"
          /\ cpc' = "run"
          /\ stpc' = "run"
          /\ shpc' = "run"
          /\ sret' = sret
     ELSE /\ spc' = "returned"
          /\ sret' = outcome
          /\ UNCHANGED <<cpc, stpc, shpc>>
  /\ UNCHANGED <<connClosed, filterMode, hpc, hquery, hresp, hout, hsteps, statistics, wire>>
  /\ UNCHANGED <<cacheVars, taskVars, resolveVars, callVars>>

\* The select at the head of the loop; `defer conn.Close()` runs when Start returns.
StartCheckReturnsErr ==
  /\ spc = "check"
  /\ IF ctxErr # NoErr
     THEN /\ spc' = "returned"
          /\ sret' = ctxErr
          /\ connClosed' = TRUE
     ELSE /\ spc' = "read"
          /\ UNCHANGED <<sret, connClosed>>
  /\ UNCHANGED <<filterMode, cpc, stpc, shpc, hpc, hquery, hresp, hout, hsteps, statistics,
                 wire>>
  /\ UNCHANGED <<cacheVars, taskVars, resolveVars, callVars>>
StartCheck ==
  /\ spc = "check"
  /\ IF ctxErr # NoErr
     THEN /\ spc' = "returned"
          /\ sret' = NoErr
          /\ connClosed' = TRUE
     ELSE /\ spc' = "read"
          /\ UNCHANGED <<sret, connClosed>>
  /\ UNCHANGED <<filterMode, cpc, stpc, shpc, hpc, hquery, hresp, hout, hsteps, statistics,
                 wire>>
  /\ UNCHANGED <<cacheVars, taskVars, resolveVars, callVars>>

\* conn.ReadFromUDP returns a datagram: it is copied into a query of 512 bytes and a
\* handleQuery task is started.
StartReadDatagram(d) ==
  /\ spc = "read"
  /\ ~connClosed
  /\ \E h \in Handlers : hpc[h] = "none"
  /\ hquery' = [hquery EXCEPT ![NextHandler] = Copy(Zeros(512), d)]
  /\ hpc' = [hpc EXCEPT ![NextHandler] = "start"]
  /\ spc' = "check"
  /\ UNCHANGED <<sret, connClosed, filterMode, cpc, stpc, shpc, hresp, hout, hsteps,
                 statistics, wire>>
  /\ UNCHANGED <<cacheVars, taskVars, resolveVars, callVars>>

\* conn.ReadFromUDP returns an error: the read deadline, or another error (the socket is
\* closed): on a timeout the loop continues; otherwise Start returns nil when ctx is done
\* and else logs and continues.
StartReadError(timeout) ==
  /\ spc = "read"
  /\ timeout => ~connClosed
  /\ IF ~timeout /\ ctxErr # NoErr
     THEN /\ spc' = "returned"
          /\ sret' = NoErr
          /\ connClosed' = TRUE
     ELSE /\ spc' = "check"
          /\ UNCHANGED <<sret, connClosed>>
  /\ UNCHANGED <<filterMode, cpc, stpc, shpc, hpc, hquery, hresp, hout, hsteps, statistics,
                 wire>>
  /\ UNCHANGED <<cacheVars, taskVars, resolveVars, callVars>>

\* shutdownHandler: <-ctx.Done(); conn.Close()
ShutdownHandler ==
  /\ shpc = "run"
  /\ ctxErr # NoErr
  /\ connClosed' = TRUE
  /\ shpc' = "exit"
  /\ UNCHANGED <<spc, sret, filterMode, cpc, stpc, hpc, hquery, hresp, hout, hsteps,
                 statistics, wire>>
  /\ UNCHANGED <<cacheVars, taskVars, resolveVars, callVars>>

\* cacheCleanUp: case <-ticker.C: s.cache.Clean()
CacheCleanUpTick ==
  /\ cpc = "run"
  /\ CleanStep

\* cacheCleanUp: case <-ctx.Done(): return
CacheCleanUpStop ==
  /\ cpc = "run"
  /\ ctxErr # NoErr
  /\ cpc' = "exit"
  /\ UNCHANGED <<spc, sret, connClosed, filterMode, stpc, shpc, hpc, hquery, hresp, hout,
                 hsteps, statistics, wire>>
  /\ UNCHANGED <<cacheVars, taskVars, resolveVars, callVars>>

\* statsReporter: case <-ticker.C: s.statistics.Log()
StatsReporterTick ==
  /\ stpc = "run"
  /\ UNCHANGED vars

\* statsReporter: case <-ctx.Done(): s.statistics.Log(); return
StatsReporterStop ==
  /\ stpc = "run"
  /\ ctxErr # NoErr
  /\ stpc' = "exit"
  /\ UNCHANGED <<spc, sret, connClosed, filterMode, cpc, shpc, hpc, hquery, hresp, hout,
                 hsteps, statistics, wire>>
  /\ UNCHANGED <<cacheVars, taskVars, resolveVars, callVars>>

\* createBlockedResponse
createBlockedResponse(mode, query) ==
  IF EqualFold(mode, <<110, 117, 108, 108>>)
  THEN CreateNullResponse(query)
  ELSE CreateBlockedResponse(query)

\* copy(response, cachedResponse); copy(response[0:2], query[0:2])
HitResponse(query, cachedResponse) ==
  Copy(Copy(Zeros(512), cachedResponse), SubSeq(query, 1, 2))

\* conn.WriteToUDP(response, clientAddr): the datagrams sent afterwards.  A write on
\* the closed socket sends nothing.
WriteToUDP(h, response) ==
  IF connClosed THEN wire
  ELSE Append(wire, [h |-> h, data |-> response, ctxErr |-> ctxErr])

\* handleQuery up to the filter: the select on ctx.Done(), then utils.ParseQuery.
HandleEntryIgnoresParseError(h) ==
  /\ hpc[h] = "start"
  /\ IF ctxErr # NoErr
     THEN /\ hpc' = [hpc EXCEPT ![h] = "done"]
          /\ hout' = [hout EXCEPT ![h] = "cancelled"]
     ELSE /\ hpc' = [hpc EXCEPT ![h] = "filter"]
          /\ hout' = hout
  /\ UNCHANGED <<spc, sret, connClosed, filterMode, cpc, stpc, shpc, hquery, hresp, hsteps,
                 statistics, wire>>
  /\ UNCHANGED <<cacheVars, taskVars, resolveVars, callVars>>
HandleEntry(h) ==
  /\ hpc[h] = "start"
  /\ IF ctxErr # NoErr
     THEN /\ hpc' = [hpc EXCEPT ![h] = "done"]
          /\ hout' = [hout EXCEPT ![h] = "cancelled"]
     ELSE IF ParseQuery(hquery[h])[2] # NoErr
     THEN /\ hpc' = [hpc EXCEPT ![h] = "done"]
          /\ hout' = [hout EXCEPT ![h] = "malformed"]
     ELSE /\ hpc' = [hpc EXCEPT ![h] = "filter"]
          /\ hout' = hout
  /\ UNCHANGED <<spc, sret, connClosed, filterMode, cpc, stpc, shpc, hquery, hresp, hsteps,
                 statistics, wire>>
  /\ UNCHANGED <<cacheVars, taskVars, resolveVars, callVars>>

\* filterDomain; for a blocked domain the reply is built, else incrementAllowed.  The
\* names asked for have no dot: IsBlocked returns in the first pass of its loop.
HandleFilter(h) ==
  /\ hpc[h] = "filter"
  /\ hsteps' = [hsteps EXCEPT ![h] = Append(@, "filter")]
  /\ IsBlocked(FilterDomains, ParseQuery(hquery[h])[1].Domain, <<>>) # <<>>
  /\ IF IsBlocked(FilterDomains, ParseQuery(hquery[h])[1].Domain, <<>>)[1]
     THEN /\ statistics' = [statistics EXCEPT !.blockedCount = @ + 1]
          /\ hresp' = [hresp EXCEPT ![h] =
                         Copy(Zeros(512), createBlockedResponse(filterMode, hquery[h]))]
          /\ hout' = [hout EXCEPT ![h] = "blocked"]
          /\ hpc' = [hpc EXCEPT ![h] = "write"]
     ELSE /\ statistics' = [statistics EXCEPT !.allowedCount = @ + 1]
          /\ hpc' = [hpc EXCEPT ![h] = "cache"]
          /\ UNCHANGED <<hresp, hout>>
  /\ UNCHANGED <<spc, sret, connClosed, filterMode, cpc, stpc, shpc, hquery, wire>>
  /\ UNCHANGED <<cacheVars, taskVars, resolveVars, callVars>>

\* getCache enters DNSCache.Get, which reads the clock.
HandleCache(h) ==
  /\ hpc[h] = "cache"
  /\ hsteps' = [hsteps EXCEPT ![h] = Append(@, "cache")]
  /\ GetEnterOf(ReaderOf(h), ParseQuery(hquery[h])[1].CacheKey)
  /\ hpc' = [hpc EXCEPT ![h] = "lookup"]
  /\ UNCHANGED <<last, hresp, hout, statistics>>
  /\ UNCHANGED <<spc, sret, connClosed, filterMode, cpc, stpc, shpc, hquery, wire>>

\* The lookup of Get; when the key is not in the map Get and getCache return.
HandleCacheLookup(h) ==
  /\ hpc[h] = "lookup"
  /\ GetLookupOf(ReaderOf(h))
  /\ hpc' = [hpc EXCEPT ![h] = IF tpc'[ReaderOf(h)] = "idle" THEN "miss" ELSE "touch"]
  /\ UNCHANGED <<last, hresp, hout, hsteps, statistics>>
  /\ UNCHANGED <<spc, sret, connClosed, filterMode, cpc, stpc, shpc, hquery, wire>>

\* A step of the second section of Get, which ends with the return of the entry.
HandleCacheTouch(h) ==
  /\ hpc[h] = "touch"
  /\ GetTouchOf(ReaderOf(h))
  /\ hpc' = [hpc EXCEPT ![h] = IF tpc'[ReaderOf(h)] = "delete" THEN "delete"
                               ELSE IF tpc'[ReaderOf(h)] = "idle" THEN "hit"
                               ELSE "touch"]
  /\ UNCHANGED <<last, hresp, hout, hsteps, statistics>>
  /\ UNCHANGED <<spc, sret, connClosed, filterMode, cpc, stpc, shpc, hquery, wire>>

\* The third section of Get, which returns a miss.
HandleCacheDelete(h) ==
  /\ hpc[h] = "delete"
  /\ GetDeleteOf(ReaderOf(h))
  /\ hpc' = [hpc EXCEPT ![h] = "miss"]
  /\ UNCHANGED <<last, hresp, hout, hsteps, statistics>>
  /\ UNCHANGED <<spc, sret, connClosed, filterMode, cpc, stpc, shpc, hquery, wire>>

\* getCache has returned the entry's bytes: incrementCacheHits, and the reply is built
\* from them.
HandleCacheHitWritesIDInPlace(h) ==
  /\ hpc[h] = "hit"
  /\ statistics' = [statistics EXCEPT !.cacheHits = @ + 1]
  /\ LET got == ret[ReaderOf(h)]
         written == Copy(got.resp, SubSeq(hquery[h], 1, 2))
     IN /\ hresp' = [hresp EXCEPT ![h] = Copy(Zeros(512), written)]
        /\ entries' = [entries EXCEPT
                         ![got.key] = IF @ # NoEntry /\ @.Response = got.resp
                                      THEN [@ EXCEPT !.Response = written]
                                      ELSE @]
  /\ hout' = [hout EXCEPT ![h] = "hit"]
  /\ hpc' = [hpc EXCEPT ![h] = "write"]
  /\ UNCHANGED <<last, hsteps>>
  /\ UNCHANGED <<spc, sret, connClosed, filterMode, cpc, stpc, shpc, hquery, wire>>
  /\ UNCHANGED <<now, taskVars, resolveVars, callVars>>
HandleCacheHit(h) ==
  /\ hpc[h] = "hit"
  /\ statistics' = [statistics EXCEPT !.cacheHits = @ + 1]
  /\ hresp' = [hresp EXCEPT ![h] = HitResponse(hquery[h], ret[ReaderOf(h)].resp)]
  /\ hout' = [hout EXCEPT ![h] = "hit"]
  /\ hpc' = [hpc EXCEPT ![h] = "write"]
  /\ UNCHANGED <<last, hsteps>>
  /\ UNCHANGED <<spc, sret, connClosed, filterMode, cpc, stpc, shpc, hquery, wire>>
  /\ UNCHANGED <<cacheVars, taskVars, resolveVars, callVars>>

\* getCache has returned no entry: incrementCacheMisses.
HandleCacheMiss(h) ==
  /\ hpc[h] = "miss"
  /\ statistics' = [statistics EXCEPT !.cacheMisses = @ + 1]
  /\ hpc' = [hpc EXCEPT ![h] = "resolve"]
  /\ UNCHANGED <<last, hresp, hout, hsteps>>
  /\ UNCHANGED <<spc, sret, connClosed, filterMode, cpc, stpc, shpc, hquery, wire>>
  /\ UNCHANGED <<cacheVars, taskVars, resolveVars, callVars>>

\* s.resolver.Resolve(ctx, query) is called: Resolve's first select.  When it returns
\* an error handleQuery logs it and returns.
HandleResolveCall(h) ==
  /\ hpc[h] = "resolve"
  /\ hsteps' = [hsteps EXCEPT ![h] = Append(@, "resolver")]
  /\ IF DoneAtEntry(ctxErr)
     THEN /\ hpc' = [hpc EXCEPT ![h] = "done"]
          /\ hout' = [hout EXCEPT ![h] = ctxErr]
     ELSE /\ hpc' = [hpc EXCEPT ![h] = "select"]
          /\ hout' = hout
  /\ UNCHANGED <<spc, sret, connClosed, filterMode, cpc, stpc, shpc, hquery, hresp,
                 statistics, wire>>
  /\ UNCHANGED <<cacheVars, taskVars, resolveVars, callVars>>

\* Resolve returns by case c of its second select: reply k of an upstream, the end of
\* ctx, or its timer (which a select that found ctx done does not wait for).
HandleResolveReturnFabricates(h, c, k) ==
  /\ hpc[h] = "select"
  /\ c = "ctx" => ctxErr # NoErr
  /\ c = "timeout" => ctxErr = NoErr
  /\ LET r == CaseReturn(c, UpstreamReply(k, hquery[h]), ctxErr)
     IN IF r[2] # NoErr
        THEN /\ hpc' = [hpc EXCEPT ![h] = "done"]
             /\ hout' = [hout EXCEPT ![h] = r[2]]
             /\ hresp' = hresp
             /\ wire' = WriteToUDP(h, CreateBlockedResponse(hquery[h]))
        ELSE /\ hpc' = [hpc EXCEPT ![h] = "set"]
             /\ hresp' = [hresp EXCEPT ![h] = r[1]]
             /\ hout' = hout
             /\ wire' = wire
  /\ UNCHANGED <<spc, sret, connClosed, filterMode, cpc, stpc, shpc, hquery, hsteps,
                 statistics>>
  /\ UNCHANGED <<cacheVars, taskVars, resolveVars, callVars>>
HandleResolveReturn(h, c, k) ==
  /\ hpc[h] = "select"
  /\ c = "ctx" => ctxErr # NoErr
  /\ c = "timeout" => ctxErr = NoErr
  /\ LET r == CaseReturn(c, UpstreamReply(k, hquery[h]), ctxErr)
     IN IF r[2] # NoErr
        THEN /\ hpc' = [hpc EXCEPT ![h] = "done"]
             /\ hout' = [hout EXCEPT ![h] = r[2]]
             /\ hresp' = hresp
        ELSE /\ hpc' = [hpc EXCEPT ![h] = "set"]
             /\ hresp' = [hresp EXCEPT ![h] = r[1]]
             /\ hout' = hout
  /\ UNCHANGED <<spc, sret, connClosed, filterMode, cpc, stpc, shpc, hquery, hsteps,
                 statistics, wire>>
  /\ UNCHANGED <<cacheVars, taskVars, resolveVars, callVars>>

\* ttl = utils.ExtractTTL(response); s.cache.Set(queryInfo.CacheKey, response, ttl)
HandleSetKeepsPresent(h) ==
  /\ hpc[h] = "set"
  /\ hsteps' = [hsteps EXCEPT ![h] = Append(@, "set")]
  /\ LET key == ParseQuery(hquery[h])[1].CacheKey
     IN IF entries[key] # NoEntry THEN entries' = entries
        ELSE \E order \in SetOrders(entries, key) :
               entries' = SetEntries(entries, key, hresp[h], ExtractTTL(hresp[h]), now, order)
  /\ LET u == Unlink(Replaced(entries', ParseQuery(hquery[h])[1].CacheKey), tref, dead)
     IN /\ tref' = u[1]
        /\ dead' = u[2]
  /\ hout' = [hout EXCEPT ![h] = "fresh"]
  /\ hpc' = [hpc EXCEPT ![h] = "write"]
  /\ UNCHANGED <<now, last, tpc, tkey, tnow, ret, lastSet, resolveVars, callVars>>
  /\ UNCHANGED <<spc, sret, connClosed, filterMode, cpc, stpc, shpc, hquery, hresp,
                 statistics, wire>>
HandleSet(h) ==
  /\ hpc[h] = "set"
  /\ hsteps' = [hsteps EXCEPT ![h] = Append(@, "set")]
  /\ LET key == ParseQuery(hquery[h])[1].CacheKey
     IN \E order \in SetOrders(entries, key) :
          entries' = SetEntries(entries, key, hresp[h], ExtractTTL(hresp[h]), now, order)
  /\ LET u == Unlink(Replaced(entries', ParseQuery(hquery[h])[1].CacheKey), tref, dead)
     IN /\ tref' = u[1]
        /\ dead' = u[2]
  /\ hout' = [hout EXCEPT ![h] = "fresh"]
  /\ hpc' = [hpc EXCEPT ![h] = "write"]
  /\ UNCHANGED <<now, last, tpc, tkey, tnow, ret, lastSet, resolveVars, callVars>>
  /\ UNCHANGED <<spc, sret, connClosed, filterMode, cpc, stpc, shpc, hquery, hresp,
                 statistics, wire>>

\* conn.WriteToUDP(response, clientAddr), and handleQuery returns.
HandleWrite(h) ==
  /\ hpc[h] = "write"
  /\ hsteps' = [hsteps EXCEPT ![h] = Append(@, "reply")]
  /\ wire' = WriteToUDP(h, hresp[h])
  /\ hpc' = [hpc EXCEPT ![h] = "done"]
  /\ UNCHANGED <<spc, sret, connClosed, filterMode, cpc, stpc, shpc, hquery, hresp, hout,
                 statistics>>
  /\ UNCHANGED <<cacheVars, taskVars, resolveVars, callVars>>

\* A handleQuery task that has stored an answer is gone, and the loop may start another;
\* in the model, while fewer than MaxDatagrams replies have been written.
HandleExit(h) ==
  /\ hpc[h] = "done"
  /\ hout[h] = "fresh"
  /\ Len(wire) < MaxDatagrams
  /\ hpc' = [hpc EXCEPT ![h] = "none"]
  /\ hquery' = [hquery EXCEPT ![h] = nil]
  /\ hresp' = [hresp EXCEPT ![h] = nil]
  /\ hout' = [hout EXCEPT ![h] = "none"]
  /\ hsteps' = [hsteps EXCEPT ![h] = <<>>]
  /\ UNCHANGED <<spc, sret, connClosed, filterMode, cpc, stpc, shpc, statistics, wire>>
  /\ UNCHANGED <<cacheVars, taskVars, resolveVars, callVars>>

\* More time passes than the TTL of any answer and the grace period together, at most
\* MaxJumps times.
Outlast ==
  /\ now < MaxJumps * (NumUpstreams + GRACE_PERIOD + 1)
  /\ now' = now + NumUpstreams + GRACE_PERIOD + 1
  /\ UNCHANGED <<entries, last, taskVars, resolveVars, serverVars, callVars>>

\* The server answers queries for one name with different IDs: the first tasks miss and
\* store an answer, the tasks started after them hit, or find the answer past its grace
\* period.
NextHits ==
  \/ NewDNSServer(EmptyString)
  \/ StartListen(NoErr)
  \/ StartCheck
  \/ \E d \in {QueryFor(1, 97), QueryFor(2, 97)} : StartReadDatagram(d)
  \/ \E h \in Handlers : HandleEntry(h)
  \/ \E h \in Handlers : HandleFilter(h)
  \/ \E h \in Handlers : HandleCache(h)
  \/ \E h \in Handlers : HandleCacheLookup(h)
  \/ \E h \in Handlers : HandleCacheTouch(h)
  \/ \E h \in Handlers : HandleCacheDelete(h)
  \/ \E h \in Handlers : HandleCacheHit(h)
  \/ \E h \in Handlers : HandleCacheMiss(h)
  \/ \E h \in Handlers : HandleResolveCall(h)
  \/ \E h \in Handlers : HandleResolveReturn(h, "result", 1)
  \/ \E h \in Handlers : HandleSet(h)
  \/ \E h \in Handlers : HandleWrite(h)
  \/ \E h \in Handlers : HandleExit(h)
  \/ CacheCleanUpTick
  \/ Outlast

SpecHits == Init /\ [][NextHits]_vars

\* Start, the shutdown and the handleQuery tasks, with no time passing: no entry
\* outlives its grace period, so that no Get comes to its third section.
NextServer ==
  \/ \E mode \in FilterModes : NewDNSServer(mode)
  \/ \E outcome \in {NoErr, ErrResolveAddr, ErrListen} : StartListen(outcome)
  \/ StartCheck
  \/ \E d \in Datagrams : StartReadDatagram(d)
  \/ \E timeout \in BOOLEAN : StartReadError(timeout)
  \/ ShutdownHandler
  \/ \E err \in CtxErrors : CtxCancel(err)
  \/ \E h \in Handlers : HandleEntry(h)
  \/ \E h \in Handlers : HandleFilter(h)
  \/ \E h \in Handlers : HandleCache(h)
  \/ \E h \in Handlers : HandleCacheLookup(h)
  \/ \E h \in Handlers : HandleCacheTouch(h)
  \/ \E h \in Handlers : HandleCacheHit(h)
  \/ \E h \in Handlers : HandleCacheMiss(h)
  \/ \E h \in Handlers : HandleResolveCall(h)
  \/ \E h \in Handlers, c \in {"result", "ctx", "timeout"}, k \in UpstreamReplies :
       HandleResolveReturn(h, c, k)
  \/ \E h \in Handlers : HandleSet(h)
  \/ \E h \in Handlers : HandleWrite(h)

SpecServer == Init /\ [][NextServer]_vars

\* Start, the shutdown and the three tasks of Start; the handleQuery tasks are started
\* and take no step.
NextShutdown ==
  \/ \E mode \in FilterModes : NewDNSServer(mode)
  \/ \E outcome \in {NoErr, ErrResolveAddr, ErrListen} : StartListen(outcome)
  \/ StartCheck
  \/ \E d \in Datagrams : StartReadDatagram(d)
  \/ \E timeout \in BOOLEAN : StartReadError(timeout)
  \/ ShutdownHandler
  \/ CacheCleanUpTick
  \/ CacheCleanUpStop
  \/ StatsReporterTick
  \/ StatsReporterStop
  \/ \E err \in CtxErrors : CtxCancel(err)

\* conn.ReadFromUDP returns.
StartRead ==
  \/ \E d \in Datagrams : StartReadDatagram(d)
  \/ \E timeout \in BOOLEAN : StartReadError(timeout)

\* The receive loop and the tasks run: a read returns (its deadline is 3 seconds), and
\* a select that finds ctx.Done() ready takes it sooner or later.
ServerFairness ==
  /\ WF_vars(StartCheck)
  /\ WF_vars(StartRead)
  /\ WF_vars(ShutdownHandler)
  /\ WF_vars(CacheCleanUpStop)
  /\ WF_vars(StatsReporterStop)

SpecShutdown == Init /\ [][NextShutdown]_vars /\ ServerFairness

(***************************************************************************)
(* FilterList.  Strings are over the letters a and A, the dot and the      *)
(* space; block list lines also have the bytes of the rule syntax.         *)
(***************************************************************************)
\* 'a', 'A', '.', ' '
Alphabet == {97, 65, 46, 32}

\* The strings of at most n bytes.
StringsUpTo(n) == UNION {[1..k -> Alphabet] : k \in 0..n}

\* What Add can have stored of the strings of at most MaxStoredLen bytes, and the maps of
\* at most MaxDomains of them.
StoredDomains == {ToLower(TrimSpace(x)) : x \in StringsUpTo(MaxStoredLen)}
RECURSIVE SetsUpTo(_, _)
SetsUpTo(S, n) ==
  IF n = 0 THEN {{}}
  ELSE LET P == SetsUpTo(S, n - 1) IN P \cup {T \cup {x} : T \in P, x \in S}
StoredSets == SetsUpTo(StoredDomains, MaxDomains)

\* The values i may have in the passes of a loop over a string of n bytes: at most n
\* indexes, each inside the string or one past its end.
IndexSeqs(n) == UNION {[1..k -> 0..(n + 1)] : k \in 0..n}

\* IsBlocked is called on a filled list with a string of at most MaxDomainLen bytes.
InitIsBlocked ==
  /\ InitProgram
  /\ fdomains \in StoredSets
  /\ arg \in {[fn |-> "IsBlocked", domain |-> d] : d \in StringsUpTo(MaxDomainLen)}
  /\ out = NoOut

IsBlockedCall ==
  /\ arg.fn = "IsBlocked"
  /\ out = NoOut
  /\ out' \in {IsBlocked(fdomains, arg.domain, indexes) :
                 indexes \in IndexSeqs(Len(arg.domain))}
  /\ UNCHANGED <<fdomains, load, arg>>
  /\ UNCHANGED <<cacheVars, taskVars, resolveVars, serverVars>>

SpecIsBlocked == InitIsBlocked /\ [][IsBlockedCall]_vars

\* f.Add(domain)
FilterAdd(domain) ==
  /\ Cardinality(fdomains) < MaxDomains
  /\ fdomains' = AddDomain(fdomains, domain)
  /\ arg' = [fn |-> "Add", domain |-> domain]
  /\ out' = NoOut
  /\ UNCHANGED load
  /\ UNCHANGED <<cacheVars, taskVars, resolveVars, serverVars>>

\* IsBlocked is called on the list as it is, and returns.
FilterIsBlocked(domain) ==
  /\ arg' = [fn |-> "IsBlocked", domain |-> domain]
  /\ out' \in {IsBlocked(fdomains, domain, indexes) :
                 indexes \in IndexSeqs(Len(domain))} \ {<<>>}
  /\ UNCHANGED <<fdomains, load>>
  /\ UNCHANGED <<cacheVars, taskVars, resolveVars, serverVars>>

\* IsBlocked up to its loop: the candidate is the normalized argument.  The model calls
\* IsBlocked once, before or after Count.
IsBlockedEnter(domain) ==
  /\ arg.fn \in {"none", "Count"}
  /\ arg' = [fn |-> "IsBlocked", domain |-> domain,
             candidate |-> ToLower(TrimSpace(TrimSuffixDot(domain))), passes |-> 0]
  /\ out' = NoOut
  /\ UNCHANGED <<fdomains, load>>
  /\ UNCHANGED <<cacheVars, taskVars, resolveVars, serverVars>>

\* One pass of the loop, with any value of i; a slice out of range ends the call with
\* no result.  The model stops counting after one pass more than the argument has bytes.
IsBlockedPass ==
  /\ arg.fn = "IsBlocked" /\ out = NoOut
  /\ arg.passes <= Len(arg.domain)
  /\ \E i \in 0..(Len(arg.candidate) + 1) :
       LET r == loopPass(fdomains, arg.candidate, i)
       IN IF r[1] = "return"
          THEN /\ out' = <<r[2]>>
               /\ arg' = [arg EXCEPT !.passes = @ + 1]
          ELSE IF r[1] = "panic"
          THEN /\ out' = out
               /\ arg' = [arg EXCEPT !.passes = @ + 1, !.fn = "panic"]
          ELSE /\ out' = out
               /\ arg' = [arg EXCEPT !.passes = @ + 1, !.candidate = r[2]]
  /\ UNCHANGED <<fdomains, load>>
  /\ UNCHANGED <<cacheVars, taskVars, resolveVars, serverVars>>

\* FilterList.Count
CountCall ==
  /\ arg.fn = "none" \/ (arg.fn = "IsBlocked" /\ out # NoOut)
  /\ arg' = [fn |-> "Count"]
  /\ out' = <<Count(fdomains)>>
  /\ UNCHANGED <<fdomains, load>>
  /\ UNCHANGED <<cacheVars, taskVars, resolveVars, serverVars>>

\* IsBlocked, pass by pass, and Count on a filled list.
InitLoop ==
  /\ InitProgram
  /\ fdomains \in SetsUpTo(StoredDomains, MaxDomains - 1)
  /\ arg = NoArg
  /\ out = NoOut

NextLoop ==
  \/ \E domain \in StringsUpTo(MaxDomainLen) : IsBlockedEnter(domain)
  \/ IsBlockedPass
  \/ CountCall

\* The goroutine that runs the loop gets to run.
SpecLoop == InitLoop /\ [][NextLoop]_vars /\ WF_vars(IsBlockedPass)

\* Domains are added and looked up in any order.
NextAdded ==
  \/ \E domain \in StringsUpTo(MaxStoredLen) : FilterAdd(domain)
  \/ \E domain \in StringsUpTo(MaxStoredLen) : FilterIsBlocked(domain)

SpecAdded == Init /\ [][NextAdded]_vars

\* The lines of a block list: a rule "||d^" or a piece of one, or nothing, after nothing,
\* the marks "!", "[" and "@@", a letter or a space.
RuleDomains == {<<97>>, <<65, 46>>}
Rules == {<<124, 124>> \o d \o <<94>> : d \in RuleDomains}
Bodies ==
  {EmptyString, <<124, 124, 94>>}
    \cup Rules
    \cup {<<124, 124>> \o d : d \in RuleDomains}
    \cup {d \o <<94>> : d \in RuleDomains}
    \cup {<<124>> \o d \o <<94>> : d \in RuleDomains}
    \cup {<<124, 124>> \o d \o <<94, 32>> : d \in RuleDomains}
    \cup {<<124, 124>> \o d \o <<94, 120>> : d \in RuleDomains}
Prefixes == {EmptyString, <<33>>, <<91>>, <<64, 64>>, <<120>>, <<32>>}
Lines == {p \o b : p \in Prefixes, b \in Bodies}

\* What the scanner yields of a file: no line, one line, or a line and a rule after it,
\* and then its Err().
NoFile == [lines |-> <<>>, err |-> NoErr]
Files ==
  {[lines |-> ls, err |-> e] :
     ls \in {<<>>} \cup {<<l>> : l \in Lines} \cup {<<l, m>> : l \in Lines, m \in Rules},
     e \in {NoErr, ErrRead}}

\* f.LoadFromFile(filename) up to its loop: logger.Init, os.Open and regexp.Compile, with
\* what logger.Init and os.Open return and what the scanner will yield of the file
\* (nothing when it could not be opened).  An error of either is returned at once.  No
\* lock is taken.  One call is in progress at a time, and the model does not load two
\* files in a row.
FilterLoad(loggerErr, openErr, file) ==
  /\ Cardinality(fdomains) < MaxDomains
  /\ load = NoLoad
  /\ arg.fn # "LoadFromFile"
  /\ openErr # NoErr => file = NoFile
  /\ IF loggerErr # NoErr \/ openErr # NoErr
     THEN /\ arg' = [fn |-> "LoadFromFile", loggerErr |-> loggerErr, openErr |-> openErr,
                     file |-> file]
          /\ out' = <<IF loggerErr # NoErr THEN loggerErr ELSE openErr>>
          /\ UNCHANGED load
     ELSE /\ load' = [pc |-> "scan", file |-> file, position |-> 0]
          /\ UNCHANGED <<arg, out>>
  /\ UNCHANGED fdomains
  /\ UNCHANGED <<cacheVars, taskVars, resolveVars, serverVars>>

\* One pass of the loop of LoadFromFile: scanner.Scan() yields the next token, and f.Add
\* takes the lock for the rule on it, if there is one, and releases it.
FilterLoadScan ==
  /\ load.pc = "scan"
  /\ load.position < Len(load.file.lines)
  /\ fdomains' = LoadLine(fdomains, load.file.lines[load.position + 1])
  /\ load' = [load EXCEPT !.position = @ + 1]
  /\ UNCHANGED <<arg, out>>
  /\ UNCHANGED <<cacheVars, taskVars, resolveVars, serverVars>>

\* scanner.Scan() yields no more: LoadFromFile logs the count and returns scanner.Err().
FilterLoadReturn ==
  /\ load.pc = "scan"
  /\ load.position = Len(load.file.lines)
  /\ arg' = [fn |-> "LoadFromFile", loggerErr |-> NoErr, openErr |-> NoErr,
             file |-> load.file]
  /\ out' = <<load.file.err>>
  /\ load' = NoLoad
  /\ UNCHANGED fdomains
  /\ UNCHANGED <<cacheVars, taskVars, resolveVars, serverVars>>

\* f.Count() by a goroutine of its own
FilterCount ==
  /\ arg' = [fn |-> "Count"]
  /\ out' = <<Count(fdomains)>>
  /\ UNCHANGED <<fdomains, load>>
  /\ UNCHANGED <<cacheVars, taskVars, resolveVars, serverVars>>

\* Add, IsBlocked and Count run beside LoadFromFile, between any two of its steps.
NextFilter ==
  \/ \E domain \in StringsUpTo(MaxStoredLen) : FilterAdd(domain)
  \/ \E loggerErr \in {NoErr, ErrLogger}, openErr \in {NoErr, ErrOpen}, file \in Files :
       FilterLoad(loggerErr, openErr, file)
  \/ FilterLoadScan
  \/ FilterLoadReturn
  \/ \E domain \in RuleDomains : FilterIsBlocked(domain)
  \/ FilterCount

SpecFilter == Init /\ [][NextFilter]_vars

(***************************************************************************)
(* The functions of the codec called on messages built field by field, as  *)
(* the helpers of the tests build them, and on buffers of any bytes.       *)
(***************************************************************************)
\* binary.BigEndian.PutUint16 and PutUint32: the bytes written
PutUint16(v) == <<v \div 256, v % 256>>

\* The labels "a", "b", "ab", "abb" and so on up to MaxLabelLen letters, and the two-byte
\* compression pointer.
Labels == {<<98>>} \cup {[i \in 1..n |-> IF i = 1 THEN 97 ELSE 98] : n \in 1..MaxLabelLen}
Pointer == <<192, 12>>

\* A name on the wire is a row of items: labels, each after its length, and pointers.
Items ==
  {[kind |-> "label", bytes |-> l] : l \in Labels}
    \cup {[kind |-> "pointer", bytes |-> Pointer]}
Names == UNION {[1..n -> Items] : n \in 0..MaxItems}

EncodeItem(item) ==
  IF item.kind = "label" THEN <<Len(item.bytes)>> \o item.bytes ELSE item.bytes

RECURSIVE EncodeName(_)
EncodeName(name) ==
  IF name = <<>> THEN <<>> ELSE EncodeItem(Head(name)) \o EncodeName(Tail(name))

\* The 12 bytes of a header: ID, flags, QDCOUNT, ANCOUNT, NSCOUNT 0, ARCOUNT 0.
Header(id, flags, qdcount, ancount) ==
  PutUint16(id) \o PutUint16(flags) \o PutUint16(qdcount) \o PutUint16(ancount)
    \o <<0, 0, 0, 0>>

\* The question of a query: the name, its terminator, QTYPE and QCLASS.
Question(name, qtype, qclass) ==
  EncodeName(name) \o <<0>> \o PutUint16(qtype) \o PutUint16(qclass)

\* buildDNSQuery: ID 0x1234 (4660), one question
buildDNSQuery(name, qtype, qclass) == Header(4660, 0, 1, 0) \o Question(name, qtype, qclass)

QTypes == {1, 28, 255, 65535}
QClasses == {1, 3}

\* The buffers of fewer than 12 bytes.
ShortBuffers == UNION {[1..n -> {0, 255}] : n \in 0..11}

\* What ParseQuery is called with: a query as built; a short buffer; a query that ends
\* inside a label of `qtype` bytes announced; a query with `qtype` bytes (fewer than 4)
\* after the name's terminator.
ParseArgs ==
  {[fn |-> "ParseQuery", kind |-> "query", name |-> n, qtype |-> t, qclass |-> c,
    query |-> buildDNSQuery(n, t, c)] : n \in Names, t \in QTypes, c \in QClasses}
    \cup {[fn |-> "ParseQuery", kind |-> "short", name |-> <<>>, qtype |-> 0, qclass |-> 0,
           query |-> b] : b \in ShortBuffers}
    \cup UNION {{[fn |-> "ParseQuery", kind |-> "pastEnd", name |-> n, qtype |-> l,
                  qclass |-> k,
                  query |-> Header(4660, 0, 1, 0) \o EncodeName(n) \o <<l>>
                              \o [i \in 1..k |-> 97]] :
                   n \in Names, k \in 0..(l - 1)} : l \in 1..(MaxLabelLen + 1)}
    \cup {[fn |-> "ParseQuery", kind |-> "noTypeClass", name |-> n, qtype |-> k,
           qclass |-> 0,
           query |-> Header(4660, 0, 1, 0) \o EncodeName(n) \o <<0>> \o [i \in 1..k |-> 1]] :
            n \in Names, k \in 0..3}

\* The TTLs of answer records, each in its four bytes: 0, 60, 300, 3600 (which ExtractTTL
\* starts from), 3601 and the largest uint32.
AnswerTTLs ==
  {<<0, 0, 0, 0>>, <<0, 0, 0, 60>>, <<0, 0, 1, 44>>, <<0, 0, 14, 16>>, <<0, 0, 14, 17>>,
   <<255, 255, 255, 255>>}

\* An answer record: its name a pointer or a label chain, type A, class IN, the TTL,
\* RDLENGTH and as many bytes of RDATA.
Records == [name : {<<[kind |-> "pointer", bytes |-> Pointer]>>,
                    <<[kind |-> "label", bytes |-> <<97>>]>>},
            ttl : AnswerTTLs, rdlength : {0, 4}]
EncodeRecord(r) ==
  EncodeName(r.name) \o (IF r.name[1].kind = "label" THEN <<0>> ELSE <<>>)
    \o PutUint16(1) \o PutUint16(1) \o r.ttl \o PutUint16(r.rdlength)
    \o [i \in 1..r.rdlength |-> 192]

RECURSIVE EncodeRecords(_)
EncodeRecords(rs) ==
  IF rs = <<>> THEN <<>> ELSE EncodeRecord(Head(rs)) \o EncodeRecords(Tail(rs))

\* buildDNSResponse and buildDNSResponseMultiple: flags 0x8180 (33152), `questions`
\* questions for "a" and the answers rs
buildDNSResponse(questions, rs) ==
  Header(4660, 33152, questions, Len(rs))
    \o (IF questions = 1 THEN Question(<<[kind |-> "label", bytes |-> <<97>>]>>, 1, 1)
        ELSE <<>>)
    \o EncodeRecords(rs)

\* What ExtractTTL is called with: a response as built, with one to n answers; a short
\* buffer; a header that counts no answer, with any bytes after it.
AnswerArgs(n) ==
  {[fn |-> "ExtractTTL", kind |-> "answers", records |-> rs,
    response |-> buildDNSResponse(q, rs)] :
     rs \in UNION {[1..k -> Records] : k \in 1..n}, q \in {0, 1}}
TTLArgs ==
  {[fn |-> "ExtractTTL", kind |-> "short", records |-> <<>>, response |-> b] :
     b \in ShortBuffers}
    \cup {[fn |-> "ExtractTTL", kind |-> "noAnswers", records |-> <<>>,
           response |-> Header(4660, 33152, q, 0) \o t] :
            q \in 0..2, t \in UNION {[1..n -> {0, 1, 97, 192}] : n \in 0..MaxTail}}

\* The queries the synthetic responses are made of: any ID, flags and answer count, with
\* one question or with nothing after the header.
Queries ==
  {Header(id, flags, 1, ancount) \o q :
     id \in {0, 4660}, flags \in {256, 65535}, ancount \in {0, 2},
     q \in {<<>>} \cup {Question(n, 1, 1) : n \in Names}}

ResponseArgs ==
  {[fn |-> f, query |-> q] : f \in {"CreateBlockedResponse", "CreateNullResponse"},
                             q \in Queries}

\* The calls: each returns what the function returns of the arguments, which it leaves as
\* they are.
ParseQueryCall ==
  /\ arg.fn = "ParseQuery"
  /\ out = NoOut
  /\ out' = <<ParseQuery(arg.query)>>
  /\ UNCHANGED <<fdomains, load, arg>>
  /\ UNCHANGED <<cacheVars, taskVars, resolveVars, serverVars>>

ExtractTTLCall ==
  /\ arg.fn = "ExtractTTL"
  /\ out = NoOut
  /\ out' = <<ExtractTTL(arg.response)>>
  /\ UNCHANGED <<fdomains, load, arg>>
  /\ UNCHANGED <<cacheVars, taskVars, resolveVars, serverVars>>

CreateBlockedResponseCall ==
  /\ arg.fn = "CreateBlockedResponse"
  /\ out = NoOut
  /\ out' = <<CreateBlockedResponse(arg.query)>>
  /\ UNCHANGED <<fdomains, load, arg>>
  /\ UNCHANGED <<cacheVars, taskVars, resolveVars, serverVars>>

CreateNullResponseCall ==
  /\ arg.fn = "CreateNullResponse"
  /\ out = NoOut
  /\ out' = <<CreateNullResponse(arg.query)>>
  /\ UNCHANGED <<fdomains, load, arg>>
  /\ UNCHANGED <<cacheVars, taskVars, resolveVars, serverVars>>

InitCodec ==
  /\ InitProgram
  /\ fdomains = {}
  /\ arg \in ParseArgs \cup AnswerArgs(MaxAnswers) \cup TTLArgs \cup ResponseArgs
  /\ out = NoOut

NextCodec ==
  \/ ParseQueryCall
  \/ ExtractTTLCall
  \/ CreateBlockedResponseCall
  \/ CreateNullResponseCall

SpecCodec == InitCodec /\ [][NextCodec]_vars

(***************************************************************************)
(* ParseQuery and ExtractTTL with every access of theirs to the buffer     *)
(* noted, called on messages cut short or with a byte replaced.            *)
(***************************************************************************)
\* p[i] and p[lo:hi] as accesses: the indices from lo up to hi, hi left out.
Index(i) == [lo |-> i, hi |-> i + 1]
Slice(lo, hi) == [lo |-> lo, hi |-> hi]

\* The accesses of the loop of ParseQuery over the labels, from `position`.
RECURSIVE parseLabelsReads(_, _)
parseLabelsReads(query, position) ==
  IF ~(position < Len(query)) THEN {}
  ELSE LET length == query[position + 1]
           read == {Index(position)}
       IN IF length = 0 THEN read
          ELSE IF length >= 192
          THEN read \cup parseLabelsReads(query, position + 2)
          ELSE LET start == position + 1
               IN IF start + length > Len(query) THEN read
                  ELSE read \cup {Slice(start, start + length)}
                         \cup parseLabelsReads(query, start + length)

\* The accesses of ParseQuery
ParseQueryReads(query) ==
  IF Len(query) < 12 THEN {}
  ELSE LET l == parseLabels(query, 12, EmptyString)
           position == l.position
       IN parseLabelsReads(query, 12)
            \cup (IF l.err # NoErr \/ position + 4 > Len(query) THEN {}
                  ELSE {Slice(position, position + 2), Slice(position + 2, position + 4)})

\* The accesses of skipName
RECURSIVE skipNameReads(_, _)
skipNameReads(p, position) ==
  IF position >= Len(p) THEN {}
  ELSE LET b == p[position + 1]
       IN {Index(position)}
            \cup (IF b >= 192 \/ b = 0 THEN {} ELSE skipNameReads(p, position + 1 + b))

\* The accesses of the first loop of ExtractTTL, q questions more to skip.
RECURSIVE skipQuestionsReads(_, _, _)
skipQuestionsReads(response, position, q) ==
  IF q = 0 THEN {}
  ELSE IF q = 1 THEN skipNameReads(response, position)
  ELSE skipQuestionsReads(response, position, q \div 2)
         \cup skipQuestionsReads(response, skipQuestions(response, position, q \div 2),
                                  q - q \div 2)

RECURSIVE readAnswersReadsTTLOnly(_, _, _)
readAnswersReadsTTLOnly(response, position, a) ==
  IF a = 0 THEN {}
  ELSE LET p == skipName(response, position)
       IN skipNameReads(response, position)
            \cup (IF p + 8 > Len(response) THEN {}
                  ELSE {Slice(p + 4, p + 8), Slice(p + 8, p + 10)}
                         \cup (IF p + 10 > Len(response) THEN {}
                               ELSE readAnswersReadsTTLOnly(
                                      response,
                                      p + 10 + Uint16(response[p + 9], response[p + 10]),
                                      a - 1)))

\* The accesses of the second loop of ExtractTTL, a answers more to read.
RECURSIVE readAnswersReads(_, _, _)
readAnswersReads(response, position, a) ==
  IF a = 0 THEN {}
  ELSE LET p == skipName(response, position)
       IN skipNameReads(response, position)
            \cup (IF p + 10 > Len(response) THEN {}
                  ELSE {Slice(p + 4, p + 8), Slice(p + 8, p + 10)}
                         \cup readAnswersReads(
                                response,
                                p + 10 + Uint16(response[p + 9], response[p + 10]),
                                a - 1))

\* The accesses of ExtractTTL
ExtractTTLReads(response) ==
  IF Len(response) < 12 THEN {}
  ELSE LET questions == Uint16(response[5], response[6])
           answers == Uint16(response[7], response[8])
       IN {Slice(4, 6), Slice(6, 8)}
            \cup skipQuestionsReads(response, 12, questions)
            \cup readAnswersReads(response, skipQuestions(response, 12, questions), answers)

\* The bytes a byte of a message is replaced with: a terminator, the shortest label, the
\* longest label, the two ends of the pointers.
ByteValues == {0, 1, 63, 192, 255}

\* A message as it is, cut after any number of its bytes, or with one byte replaced; the
\* high byte of QDCOUNT only with 0 or 1, so that the questions counted stay below 512.
Damaged(b) ==
  {SubSeq(b, 1, n) : n \in 0..Len(b)}
    \cup UNION {{[b EXCEPT ![i] = v] : v \in IF i = 5 THEN {0, 1} ELSE ByteValues} :
                   i \in 1..Len(b)}

\* The answer records of the damaged responses: a pointer or a label for the name, the
\* TTL 60, no RDATA or four bytes of it.
PlainRecords == [name : {<<[kind |-> "pointer", bytes |-> Pointer]>>,
                         <<[kind |-> "label", bytes |-> <<97>>]>>},
                 ttl : {<<0, 0, 0, 60>>}, rdlength : {0, 4}]

\* What the two functions are called with: the damaged queries of one question; the
\* damaged responses of up to n answers; a header with small counts or the largest count
\* of answers and up to t bytes after it; a header with the largest two counts and at
\* most one byte after it.
TotalArgs(n, t) ==
  {[fn |-> "ParseQuery", buffer |-> d] :
     d \in UNION {Damaged(buildDNSQuery(nm, 1, 1)) : nm \in Names}}
    \cup {[fn |-> "ExtractTTL", buffer |-> d] :
            d \in UNION {Damaged(buildDNSResponse(q, rs)) :
                           q \in {0, 1}, rs \in UNION {[1..k -> PlainRecords] : k \in 1..n}}}
    \cup {[fn |-> f, buffer |-> Header(4660, 33152, q, a) \o tl] :
            f \in {"ParseQuery", "ExtractTTL"}, q \in {0, 1, 2, 255}, a \in {0, 1, 65535},
            tl \in UNION {[1..k -> ByteValues] : k \in 0..t}}
    \cup {[fn |-> "ExtractTTL", buffer |-> Header(4660, 33152, 65535, 65535) \o tl] :
            tl \in {<<>>, <<63>>, <<192>>}}

ParseQueryNoted ==
  /\ arg.fn = "ParseQuery"
  /\ out = NoOut
  /\ out' = <<ParseQuery(arg.buffer), ParseQueryReads(arg.buffer)>>
  /\ UNCHANGED <<fdomains, load, arg>>
  /\ UNCHANGED <<cacheVars, taskVars, resolveVars, serverVars>>

ExtractTTLNoted ==
  /\ arg.fn = "ExtractTTL"
  /\ out = NoOut
  /\ out' = <<ExtractTTL(arg.buffer), ExtractTTLReads(arg.buffer)>>
  /\ UNCHANGED <<fdomains, load, arg>>
  /\ UNCHANGED <<cacheVars, taskVars, resolveVars, serverVars>>

InitTotal ==
  /\ InitProgram
  /\ fdomains = {}
  /\ arg \in TotalArgs(MaxAnswers, MaxTail)
  /\ out = NoOut

NextTotal ==
  \/ ParseQueryNoted
  \/ ExtractTTLNoted

SpecTotal == InitTotal /\ [][NextTotal]_vars

(***************************************************************************)
(* NewUpstreamResolver, called with lists written element by element.      *)
(***************************************************************************)
\* strings.Split(str, ","): the pieces between the commas (44)
RECURSIVE Split(_)
Split(str) ==
  IF \A i \in 1..Len(str) : str[i] # 44 THEN <<str>>
  ELSE LET i == CHOOSE j \in 1..Len(str) : str[j] = 44 /\ \A k \in 1..(j - 1) : str[k] # 44
       IN <<SubSeq(str, 1, i - 1)>> \o Split(SubSeq(str, i + 1, Len(str)))

\* NewUpstreamResolver: each piece trimmed, with ":53" after it; the timeout in seconds
NewUpstreamResolverNoTrim(upstream) ==
  [upstreamAddrs |-> [i \in 1..Len(Split(upstream)) |-> Split(upstream)[i] \o <<58, 53, 51>>],
   timeout |-> 5]
NewUpstreamResolver(upstream) ==
  LET addresses == Split(upstream)
  IN [upstreamAddrs |-> [i \in 1..Len(addresses) |-> TrimSpace(addresses[i]) \o <<58, 53, 51>>],
      timeout |-> 5]

\* An element of a list: "", "1", "1 1" or "1:53", with white space before and after it.
Pads == {EmptyString, <<32>>, <<9, 32>>}
Cores == {EmptyString, <<49>>, <<49, 32, 49>>, <<49, 58, 53, 51>>}
Elements == [lpad : Pads, core : Cores, rpad : Pads]

\* The elements written one after another with commas between them.
RECURSIVE JoinElements(_)
JoinElements(es) ==
  LET e == Head(es).lpad \o Head(es).core \o Head(es).rpad
  IN IF Len(es) = 1 THEN e ELSE e \o <<44>> \o JoinElements(Tail(es))

ResolverArgs ==
  {[fn |-> "NewUpstreamResolver", elements |-> es, upstream |-> JoinElements(es)] :
     es \in UNION {[1..n -> Elements] : n \in 1..MaxElements}}

InitNewResolver ==
  /\ InitProgram
  /\ fdomains = {}
  /\ arg \in ResolverArgs
  /\ out = NoOut

NewUpstreamResolverCall ==
  /\ arg.fn = "NewUpstreamResolver"
  /\ out = NoOut
  /\ out' = <<NewUpstreamResolver(arg.upstream)>>
  /\ UNCHANGED <<fdomains, load, arg>>
  /\ UNCHANGED <<cacheVars, taskVars, resolveVars, serverVars>>

SpecNewResolver == InitNewResolver /\ [][NewUpstreamResolverCall]_vars

(***************************************************************************)
(* Claims about the cache.                                                 *)
(***************************************************************************)
\* The score evictOne gives an entry: secondsSinceLastAccess / (popularity + 1).
ScoreOf(ce, nw) == <<nw - ce.LastAccess, ce.popularity + 1>>

\* C1: in every reachable state the map holds at most maxSize entries, whatever the
\* keys, the empty string included.
C1_SizeAtMostMax == Size(entries) <= maxSize

\* C2: a Get that directly follows Set(key, response, ttl) with ttl > 0 on the same key
\* returns (response, found = true, needsRefresh = false).
C2_SetThenGet ==
  (last.op = "Get" /\ last.imm # nil)
    => (last.resp = last.imm /\ last.found /\ ~last.needsRefresh)

C2_Witness ==
  /\ last.op = "Get" /\ last.imm = <<2>> /\ last.found
  /\ Size(entries) >= maxSize

\* C3: a Set of an absent key into a map of exactly maxSize entries removes exactly one
\* entry, one whose score no other entry exceeds, leaves the others as they were, stores
\* the new key, and leaves the map with exactly maxSize entries.
C3_EvictsExactlyOne ==
  [][(last'.op = "Set" /\ Size(entries) = maxSize /\ entries[last'.key] = NoEntry)
       => /\ entries'[last'.key] # NoEntry
          /\ ~IsCompletelyExpired(entries'[last'.key], now')
          /\ Size(entries') = maxSize
          /\ \E w \in Present(entries) :
               /\ entries'[w] = NoEntry
               /\ \A k \in Present(entries) \ {w} : entries'[k] = entries[k]
               /\ \A k \in Present(entries) :
                    ~ScoreGreater(ScoreOf(entries[k], now), ScoreOf(entries[w], now))]_vars

\* C4: a Get of a key whose entry is past expires-at + grace period returns (nil, false)
\* and the key is not in the map once it has returned.
C4_ExpiredGetMisses ==
  (last.op = "Get" /\ last.pre = "expired")
    => (last.resp = nil /\ ~last.found /\ entries[last.key] = NoEntry)

C4_Witness == last.op = "Get" /\ last.pre = "expired" /\ Size(entries) > 0

\* C5: an entry is expired as soon as its TTL has elapsed: a Get after more than ttl
\* seconds returns (nil, false) and removes the key, and after Clean no entry whose TTL
\* has elapsed is left.
C5_ExpiredAtTTL ==
  /\ (last.op = "Get" /\ last.pre \in {"elapsed", "expired"})
       => (last.resp = nil /\ ~last.found /\ entries[last.key] = NoEntry)
  /\ last.op = "Clean" => \A k \in Present(entries) : now <= entries[k].ExpiresAt

\* C6: Clean removes exactly the entries past expires-at + grace period and leaves every
\* other entry as it was.
C6_CleanRemovesExactlyExpired ==
  [][last'.op = "Clean"
       => \A k \in AllKeys :
            entries'[k] = IF entries[k] # NoEntry /\ now > entries[k].ExpiresAt + GRACE_PERIOD
                          THEN NoEntry ELSE entries[k]]_vars

C6_Witness == last.op = "Clean" /\ last.n > 0 /\ Size(entries) > 0

\* C7: with every task on a key of its own, a Get that finds its key returns the bytes
\* of the last Set of that key.
C7_DisjointKeysKeepBytes ==
  \A t \in Tasks :
    (ret[t].op = "Get" /\ ret[t].found) => ret[t].resp = lastSet[ret[t].key]

C7_Witness ==
  /\ ret["t1"].op = "Get" /\ ret["t1"].found /\ ret["t1"].resp = <<1>>
  /\ ret["t2"].op = "Get" /\ ret["t2"].found /\ ret["t2"].resp = <<2>>

(***************************************************************************)
(* Claims about the resolver.                                              *)
(***************************************************************************)
\* Every goroutine has ended on a failed dial, write or read.
AllAttemptsFailed ==
  \A u \in Upstreams : apc[u] = "exit" /\ aout[u] \in {"dial", "write", "read"}

\* C8: when a result is sent while Resolve has not yet chosen a case and the context
\* passed to it is not done, Resolve returns the first result sent, with a nil error; and
\* whenever it returns a nil error, the response is the first result sent.
C8_FirstResultWins ==
  rpc = "done" =>
    /\ (inTime /\ ctxErr = NoErr)
         => (rerr = NoErr /\ rresp = ResponseOf(sentOrder[1]))
    /\ rerr = NoErr => (sentOrder # <<>> /\ rresp = ResponseOf(sentOrder[1]))

\* Resolve has returned upstream 2's answer while upstream 1 is still at its I/O.
C8_Witness ==
  /\ rpc = "done" /\ rerr = NoErr /\ rresp = ResponseOf(2) /\ ctxErr = NoErr
  /\ apc[1] \in {"dial", "write", "read"}

\* C9: called with a context that is already done, Resolve returns (nil, ctx.Err()) at
\* once and starts no goroutine.
C9_DoneAtCall ==
  callCtx # NoErr =>
    /\ rpc = "done" /\ rresp = nil /\ rerr = callCtx
    /\ \A u \in Upstreams : apc[u] = "idle"
    /\ sentOrder = <<>> /\ responseChan = <<>>

C9_Witness == rpc = "done" /\ callCtx = "context canceled"

\* C10: Resolve returns AllUpstreamsFailed (with a nil response) exactly in the step in
\* which its timer fires with no result sent and the context not done; it has not returned
\* while every goroutine has failed, the timer has not fired and the context is not done;
\* and once every goroutine has failed it eventually returns that error, unless the
\* context has ended.
C10_AllFailedOnTimeout ==
  /\ [][(rerr' = AllUpstreamsFailed /\ rerr # AllUpstreamsFailed)
          => /\ timer = "armed" /\ timer' = "fired"
             /\ rpc = "blocked" /\ rpc' = "done"
             /\ sentOrder = <<>> /\ ctxErr = NoErr /\ rresp' = nil]_vars
  /\ [][(timer = "armed" /\ timer' = "fired" /\ sentOrder = <<>> /\ ctxErr = NoErr)
          => (rpc' = "done" /\ rerr' = AllUpstreamsFailed /\ rresp' = nil)]_vars
  /\ []((AllAttemptsFailed /\ timer # "fired" /\ ctxErr = NoErr) => rpc # "done")
  /\ (AllAttemptsFailed
        ~> (rpc = "done" /\ (rerr = AllUpstreamsFailed \/ ctxErr # NoErr)))

C10_Witness ==
  /\ rpc = "done" /\ rerr = AllUpstreamsFailed /\ rresp = nil
  /\ AllAttemptsFailed /\ ctxErr = NoErr

\* An attempt has ended on a failed dial, write or read.
Failed(u) == aout[u] \in {"dial", "write", "read"}

\* C11: the step in which an attempt fails on its dial, write or read changes nothing of
\* Resolve (its position, what it returns, the channel); and when a result was sent
\* while Resolve had not yet chosen a case and the context passed to it is not done,
\* Resolve returns the response of an upstream that sent, with a nil error, whatever the
\* other attempts did.
C11_AttemptFailureNeverFailsCall ==
  /\ [][\A u \in Upstreams :
          (~Failed(u) /\ Failed(u)')
            => UNCHANGED <<rpc, rresp, rerr, responseChan, cancelled>>]_vars
  /\ []((rpc = "done" /\ inTime /\ ctxErr = NoErr)
          => /\ rerr = NoErr
             /\ \E u \in Upstreams : aout[u] = "sent" /\ rresp = ResponseOf(u))

\* Resolve has returned upstream 2's answer after upstream 1 failed to dial.
C11_Witness ==
  /\ rpc = "done" /\ rerr = NoErr /\ rresp = ResponseOf(2) /\ ctxErr = NoErr
  /\ aout[1] = "dial" /\ sentOrder = <<2>>

\* C12: when the context passed to Resolve ends while Resolve waits in its select with
\* no result received, Resolve returns (nil, ctx.Err()) in that very step, the timer not
\* having fired; and a Resolve that reaches its select with the context done and the
\* channel empty returns (nil, ctx.Err()).
C12_ParentEndWhileWaiting ==
  /\ [][(rpc = "blocked" /\ ctxErr = NoErr /\ ctxErr' # NoErr)
          => (rpc' = "done" /\ rresp' = nil /\ rerr' = ctxErr' /\ timer' = "armed")]_vars
  /\ [][(rpc = "select" /\ rpc' # "select" /\ ctxErr # NoErr /\ responseChan = <<>>)
          => (rpc' = "done" /\ rresp' = nil /\ rerr' = ctxErr)]_vars

C12_Witness ==
  /\ rpc = "done" /\ rerr = "context deadline exceeded" /\ rresp = nil
  /\ callCtx = NoErr /\ timer = "armed" /\ sentOrder = <<>>

\* s is the beginning of t.
IsPrefix(s, t) == Len(t) >= Len(s) /\ SubSeq(t, 1, Len(s)) = s

\* C13: the channel never holds more results than its capacity; a goroutine at its send
\* always finds room, so its send can be taken at once; no upstream sends twice; once
\* Resolve has taken a case nothing is read from the channel any more; and a goroutine
\* that has reached its send ends, whether or not Resolve has returned.
C13_NoAttemptBlocks ==
  /\ [](Len(responseChan) <= Capacity)
  /\ [](\A u \in Upstreams : apc[u] = "send" => Len(responseChan) < Capacity)
  /\ [](\A i, j \in 1..Len(sentOrder) : i # j => sentOrder[i] # sentOrder[j])
  /\ [][(rpc \in {"got", "done"}) => IsPrefix(responseChan, responseChan')]_vars
  /\ \A u \in Upstreams : (apc[u] = "send") ~> (apc[u] = "exit")

\* Resolve has returned on its timer; every upstream then sent, and the results lie
\* unread in the channel.
C13_Witness ==
  /\ rpc = "done" /\ rerr = AllUpstreamsFailed
  /\ Len(responseChan) = NumUpstreams
  /\ \A u \in Upstreams : apc[u] = "exit" /\ aout[u] = "sent"

\* C14: when Resolve has returned a result, cancel() of queryCtx has been called, it
\* stays cancelled, and a goroutine that is at its select finds ctx.Done() ready.
C14_CancelledBeforeReturn ==
  /\ []((rpc = "done" /\ rerr = NoErr) => (cancelled /\ QueryCtxDone))
  /\ [][cancelled => cancelled']_vars
  /\ [][(rpc' = "done" /\ rpc # "done" /\ rerr' = NoErr) => cancelled']_vars

\* Resolve has returned upstream 2's answer and upstream 1, at its select afterwards,
\* left on ctx.Done().
C14_Witness ==
  /\ rpc = "done" /\ rerr = NoErr /\ rresp = ResponseOf(2) /\ ctxErr = NoErr
  /\ cancelled /\ aout[1] = "dropped"

(***************************************************************************)
(* Claims about the server.                                                *)
(***************************************************************************)
\* The datagrams written for the query of task h.
RepliesOf(h) == {i \in DOMAIN wire : wire[i].h = h}

\* The cache key of the query of task h.
KeyOfQuery(h) == ParseQuery(hquery[h])[1].CacheKey

\* C15: every datagram written to a client begins with the two bytes the query it
\* answers begins with, whether it was built from a cached response, for a blocked
\* domain, or is what Resolve returned from an upstream.
C15_ReplyCarriesQueryID ==
  \A i \in DOMAIN wire :
    /\ Len(wire[i].data) >= 2
    /\ SubSeq(wire[i].data, 1, 2) = SubSeq(hquery[wire[i].h], 1, 2)

\* What the code does: a reply built from a cached response or for a blocked domain
\* begins with the two bytes of its query; a reply after a miss is the bytes Resolve
\* returned, which are also the bytes stored in the cache, whatever their first two are.
C15_IDCopiedOnHitAndBlocked ==
  \A i \in DOMAIN wire :
    LET h == wire[i].h
    IN /\ hout[h] \in {"hit", "blocked"}
            => SubSeq(wire[i].data, 1, 2) = SubSeq(hquery[h], 1, 2)
       /\ hout[h] = "fresh"
            => \E k \in UpstreamReplies : wire[i].data = UpstreamReply(k, hquery[h])

\* A reply served from the cache, the cached bytes beginning with another ID.
C15_HitSeen ==
  \E i \in DOMAIN wire :
    /\ hout[wire[i].h] = "hit"
    /\ entries[KeyOfQuery(wire[i].h)] # NoEntry
    /\ SubSeq(entries[KeyOfQuery(wire[i].h)].Response, 1, 2) # SubSeq(wire[i].data, 1, 2)

\* The calls of a handleQuery task, in the order of the pipeline.
Pipeline == <<"filter", "cache", "resolver", "set", "reply">>

\* The step of task h leaves the cache as it is.
KeepsCache(h) == (hpc'[h] # hpc[h]) => (entries' = entries)

\* C16 (order): what a task has called is the filter, then the cache, then the resolver,
\* then Set, then the write, or the filter and the write, or the filter, the cache and
\* the write; a task whose domain is blocked calls the filter and the write only and
\* its steps leave the cache as it is; the resolver is called after a miss only.
C16_PipelineOrder ==
  /\ [](\A h \in Handlers :
          /\ \/ IsPrefix(hsteps[h], Pipeline)
             \/ hsteps[h] \in {<<"filter", "reply">>, <<"filter", "cache", "reply">>}
          /\ hout[h] = "blocked" => hsteps[h] \in {<<"filter">>, <<"filter", "reply">>}
          /\ hout[h] = "hit" => hsteps[h] \in {<<"filter", "cache">>, <<"filter", "cache", "reply">>})
  /\ [][\A h \in Handlers :
          (hout'[h] = "blocked" \/ hpc[h] \in {"start", "filter"}) => KeepsCache(h)]_vars

\* C16: the order of C16_PipelineOrder, and the datagram written for a blocked domain is
\* the null response of the query when the filter mode is "null" in any case of
\* letters, and its NXDOMAIN response otherwise.
C16_BlockedReplyByMode ==
  /\ C16_PipelineOrder
  /\ [](\A h \in Handlers : \A i \in RepliesOf(h) :
          hout[h] = "blocked" =>
            wire[i].data = IF ToLower(filterMode) = <<110, 117, 108, 108>>
                           THEN CreateNullResponse(hquery[h])
                           ELSE CreateBlockedResponse(hquery[h]))

\* What the code has in place of the last part of C16: the datagram written for a
\* blocked domain is the first 512 bytes of the response createBlockedResponse builds.
C16_BlockedReplyFirst512 ==
  \A h \in Handlers : \A i \in RepliesOf(h) :
    hout[h] = "blocked" =>
      wire[i].data = SubSeq(createBlockedResponse(filterMode, hquery[h]), 1, 512)

\* C17: a task whose Resolve returned an error has not called Set and has written no
\* datagram, and the step in which Resolve returns the error leaves the cache and the
\* socket as they were and ends the task.
C17_ResolveErrorNoReplyNoSet ==
  /\ [](\A h \in Handlers :
          hout[h] \in CtxErrors \cup {AllUpstreamsFailed}
            => /\ hpc[h] = "done"
               /\ RepliesOf(h) = {}
               /\ hsteps[h] = <<"filter", "cache", "resolver">>)
  /\ [][\A h \in Handlers :
          (hout'[h] # hout[h] /\ hout'[h] \in CtxErrors \cup {AllUpstreamsFailed})
            => (entries' = entries /\ wire' = wire /\ hpc'[h] = "done")]_vars
  /\ [](\A h \in Handlers :
          (hout[h] \in CtxErrors \cup {AllUpstreamsFailed}
             /\ \A g \in Handlers \ {h} : "set" \notin {hsteps[g][j] : j \in DOMAIN hsteps[g]})
            => entries[KeyOfQuery(h)] = NoEntry)

\* Both tasks have ended on an error of Resolve, the one on its timer and the other on
\* the end of ctx; nothing was written and the cache is empty.
C17_Witness ==
  /\ hout[1] = AllUpstreamsFailed /\ hout[2] = "context canceled"
  /\ wire = <<>> /\ Present(entries) = {}

\* C18: a task whose query ParseQuery rejects has called nothing and written nothing, and
\* the step that rejects it leaves the cache, the counters and the socket as they were
\* and ends the task.
C18_MalformedDropped ==
  /\ [](\A h \in Handlers :
          hout[h] = "malformed"
            => (hpc[h] = "done" /\ hsteps[h] = <<>> /\ RepliesOf(h) = {}))
  /\ [][\A h \in Handlers :
          (hpc[h] = "start" /\ hpc'[h] # "start" /\ ParseQuery(hquery[h])[2] # NoErr)
            => /\ hpc'[h] = "done"
               /\ entries' = entries /\ statistics' = statistics /\ wire' = wire]_vars
  /\ []((\A h \in Handlers : hout[h] \in {"none", "malformed", "cancelled"} /\ hpc[h] \in {"none", "start", "done"})
          => (statistics = NoStatistics /\ Present(entries) = {} /\ wire = <<>>))

\* Two datagrams were received, both rejected by ParseQuery, while the server runs.
C18_Witness ==
  /\ \A h \in Handlers : hout[h] = "malformed" /\ hpc[h] = "done"
  /\ ctxErr = NoErr /\ spc = "read"

\* C19: no datagram is written to a client once ctx is done.
C19_NoReplyAfterCancel ==
  \A i \in DOMAIN wire : wire[i].ctxErr = NoErr

\* Start listens: its loop runs or it has returned from the loop.
Listening == spc \in {"check", "read"} \/ (spc = "returned" /\ sret = NoErr)

\* C20: once ctx is done and Start listens, Start returns nil, the socket is closed and
\* the cacheCleanUp and statsReporter tasks end; Start returns no error from its loop;
\* and no handleQuery task is started after Start has returned.
C20_ShutdownStopsAll ==
  /\ ((ctxErr # NoErr /\ Listening)
        ~> (spc = "returned" /\ sret = NoErr /\ connClosed /\ cpc = "exit" /\ stpc = "exit"))
  /\ []((spc = "returned" /\ sret = NoErr) => (ctxErr # NoErr /\ connClosed))
  /\ [][spc = "returned" => (hpc' = hpc /\ spc' = "returned")]_vars

\* Start has returned nil with the socket closed, the three tasks it started have ended,
\* and two handleQuery tasks had been started.
C20_Witness ==
  /\ spc = "returned" /\ sret = NoErr /\ connClosed
  /\ cpc = "exit" /\ stpc = "exit" /\ shpc = "exit"
  /\ hpc[1] = "start" /\ hpc[2] = "start"

(***************************************************************************)
(* Claims about the filter.                                                *)
(***************************************************************************)
\* The string IsBlocked looks up first: one trailing dot cut off, then the surrounding
\* white space, then lower case.
Normalized(domain) == ToLower(TrimSpace(TrimSuffixDot(domain)))

\* A domain and its parents: what is left after the labels before one of its dots.
ParentsOf(domain) ==
  {SubSeq(domain, k + 1, Len(domain)) :
     k \in {0} \cup {i \in 1..Len(domain) : domain[i] = 46}}

\* C21: IsBlocked(d) is true exactly when the normalized d or one of its parents, cut at
\* a dot, is in the set.
C21_BlockedIffParentInSet ==
  (arg.fn = "IsBlocked" /\ out # NoOut)
    => (out[1] <=> (ParentsOf(Normalized(arg.domain)) \cap fdomains # {}))

\* What the code settles: IsBlocked returns true when the normalized d is in the set,
\* false when it is not and has no dot, and true only when the normalized d or what is
\* left of it after some of its bytes is in the set.
C21_FirstPassAsCoded ==
  (arg.fn = "IsBlocked" /\ out # NoOut)
    => LET d == Normalized(arg.domain)
       IN /\ d \in fdomains => out = <<TRUE>>
          /\ (d \notin fdomains /\ IndexDot(d) = -1) => out = <<FALSE>>
          /\ out = <<TRUE>> => \E k \in 0..Len(d) : SubSeq(d, k + 1, Len(d)) \in fdomains

\* "A.a" has been found not blocked on a list that holds "a".
C21_ParentMissed ==
  /\ arg = [fn |-> "IsBlocked", domain |-> <<65, 46, 97>>]
  /\ fdomains = {<<97>>}
  /\ out = <<FALSE>>

\* C22: every domain in the set is in lower case and does not end with a dot.
C22_StoredLowerNoDot ==
  \A d \in fdomains : d = ToLower(d) /\ (d = EmptyString \/ d[Len(d)] # 46)

\* What a line gives to the set: nothing when it is blank or starts with "!", "[" or
\* "@@", else what stands between its first "||" and the "^" that ends it.
Captured(text) ==
  LET line == TrimSpace(text)
      n == Len(line)
      bars(j) == line[j] = 124 /\ line[j + 1] = 124
  IN IF n = 0 \/ line[1] \in {33, 91} \/ (n >= 2 /\ line[1] = 64 /\ line[2] = 64)
     THEN {}
     ELSE {SubSeq(line, i + 2, n - 1) :
             i \in {j \in 1..(n - 2) :
                      bars(j) /\ line[n] = 94 /\ \A k \in 1..(j - 1) : ~bars(k)}}

\* The domains of the rules among the lines, as Add stores them.
RuleDomainsOf(lines) ==
  UNION {{ToLower(TrimSpace(d)) : d \in Captured(lines[i])} : i \in 1..Len(lines)}

\* LoadFromFile scans a token; LoadFromFile returns.
LoadScans == load.pc = "scan" /\ load'.pc = "scan" /\ load'.position = load.position + 1
LoadReturns == arg.fn # "LoadFromFile" /\ arg'.fn = "LoadFromFile"

\* C23: LoadFromFile adds the domains of the rules of the file and nothing else, and
\* returns the error of opening or of reading the file, or none: each token it scans adds
\* the domain of its rule, if it is one, and by the time it returns the domains of all
\* the rules of the file are in the set.
C23_LoadAddsRulesOnly ==
  [][/\ LoadScans
          => fdomains' = fdomains \cup RuleDomainsOf(<<load.file.lines[load'.position]>>)
     /\ LoadReturns
          => /\ fdomains' = fdomains
             /\ RuleDomainsOf(arg'.file.lines) \subseteq fdomains'
             /\ out' = <<IF arg'.openErr # NoErr THEN arg'.openErr
                         ELSE arg'.file.err>>]_vars

\* What the code has in place of C23: the same when logger.Init succeeds; when it fails
\* no token is scanned and its error is returned.
C23_LoadAsCoded ==
  [][/\ LoadScans
          => fdomains' = fdomains \cup RuleDomainsOf(<<load.file.lines[load'.position]>>)
     /\ LoadReturns
          => /\ fdomains' = fdomains
             /\ IF arg'.loggerErr # NoErr
                THEN load = NoLoad /\ out' = <<arg'.loggerErr>>
                ELSE /\ RuleDomainsOf(arg'.file.lines) \subseteq fdomains'
                     /\ out' = <<IF arg'.openErr # NoErr THEN arg'.openErr
                                 ELSE arg'.file.err>>]_vars

\* A list that held "a" alone, and said so to Count, while LoadFromFile was between the
\* two rules of a file.
C23_BetweenTwoLines ==
  /\ load.pc = "scan" /\ load.position = 1 /\ Len(load.file.lines) = 2
  /\ fdomains = {<<97>>}
  /\ arg = [fn |-> "Count"] /\ out = <<1>>

(***************************************************************************)
(* Claims about the codec.                                                 *)
(***************************************************************************)
\* C24: ParseQuery returns an error and no QueryInfo for a buffer of fewer than 12
\* bytes, for one that ends inside a label, and for one with fewer than 4 bytes after the
\* name's terminator; and it never returns a QueryInfo with an error.
C24_MalformedRejected ==
  (arg.fn = "ParseQuery" /\ out # NoOut)
    => /\ arg.kind \in {"short", "pastEnd", "noTypeClass"} => out[1][2] # NoErr
       /\ out[1][2] # NoErr => out[1][1] = NoQueryInfo

\* A query that ends one byte into a label of two, after the label "a", was rejected.
C24_Witness ==
  /\ arg.fn = "ParseQuery" /\ out # NoOut
  /\ arg.kind = "pastEnd" /\ arg.qtype = 2 /\ arg.qclass = 1
  /\ arg.name = <<[kind |-> "label", bytes |-> <<97>>]>>
  /\ out[1] = <<NoQueryInfo, ErrDomainLength>>

\* The labels of a name joined with dots; a pointer gives nothing.
RECURSIVE JoinLabels(_)
JoinLabels(name) ==
  IF name = <<>> THEN EmptyString
  ELSE LET rest == JoinLabels(Tail(name))
       IN IF Head(name).kind = "pointer" THEN rest
          ELSE IF \A i \in 2..Len(name) : name[i].kind = "pointer" THEN Head(name).bytes
          ELSE Head(name).bytes \o <<46>> \o rest

\* The query types of the model in decimal digits.
DecimalText(qtype) ==
  CASE qtype = 1 -> <<49>>
    [] qtype = 28 -> <<50, 56>>
    [] qtype = 255 -> <<50, 53, 53>>
    [] qtype = 65535 -> <<54, 53, 53, 51, 53>>

\* C25: of a query built from labels, a type and a class, ParseQuery returns the labels
\* joined with dots, the type, the class and the key "<domain>:<type>"; a pointer in the
\* name adds no label.
C25_ParsesBuiltQuery ==
  (arg.fn = "ParseQuery" /\ out # NoOut /\ arg.kind = "query")
    => out[1] = <<[Domain |-> JoinLabels(arg.name),
                   CacheKey |-> JoinLabels(arg.name) \o <<58>> \o DecimalText(arg.qtype),
                   QType |-> arg.qtype, QClass |-> arg.qclass],
                  NoErr>>

\* The name "ab" with a pointer after the label, asked with type 28, was parsed as "ab"
\* with key "ab:28".
C25_Witness ==
  /\ arg.fn = "ParseQuery" /\ out # NoOut /\ arg.kind = "query"
  /\ arg.name = <<[kind |-> "label", bytes |-> <<97, 98>>],
                  [kind |-> "pointer", bytes |-> Pointer]>>
  /\ arg.qtype = 28
  /\ out[1][1].Domain = <<97, 98>>
  /\ out[1][1].CacheKey = <<97, 98, 58, 50, 56>>

\* The least of a set of uint32, each in its four bytes.
MinUint32(S) == CHOOSE x \in S : \A y \in S : ~LessUint32(y, x)

TTLsOf(records) == {records[i].ttl : i \in 1..Len(records)}

\* C26 as claimed: of a response with answers ExtractTTL returns the least of their TTLs.
C26_MinimumOfAnswers ==
  (arg.fn = "ExtractTTL" /\ out # NoOut /\ arg.kind = "answers")
    => <<0, 0, out[1] \div 256, out[1] % 256>> = MinUint32(TTLsOf(arg.records))

\* C26 as amended: of a response with answers ExtractTTL returns the least of 3600 and
\* their TTLs.
C26_MinimumCappedAt3600 ==
  (arg.fn = "ExtractTTL" /\ out # NoOut /\ arg.kind = "answers")
    => <<0, 0, out[1] \div 256, out[1] % 256>>
         = MinUint32(TTLsOf(arg.records) \cup {<<0, 0, 14, 16>>})

\* Of two answers after a question, the first named by a label chain with the largest
\* TTL and four bytes of data, the second named by a pointer with TTL 60, 60 came out.
C26_Witness ==
  /\ arg.fn = "ExtractTTL" /\ out # NoOut /\ arg.kind = "answers"
  /\ Len(arg.records) = 2
  /\ arg.records[1] = [name |-> <<[kind |-> "label", bytes |-> <<97>>]>>,
                       ttl |-> <<255, 255, 255, 255>>, rdlength |-> 4]
  /\ arg.records[2].ttl = <<0, 0, 0, 60>>
  /\ arg.records[2].name[1].kind = "pointer"
  /\ arg.response[6] = 1
  /\ out = <<60>>

\* C27: ExtractTTL returns 300 of a buffer of fewer than 12 bytes and 3600 of a longer one
\* that counts no answer.
C27_TwoDefaults ==
  (arg.fn = "ExtractTTL" /\ out # NoOut)
    => /\ Len(arg.response) < 12 => out[1] = 300
       /\ (Len(arg.response) >= 12 /\ arg.response[7] = 0 /\ arg.response[8] = 0)
            => out[1] = 3600

\* 3600 came out of a header that counts two questions and no answer, with three bytes
\* after it that are no question.
C27_Witness ==
  /\ arg.fn = "ExtractTTL" /\ out # NoOut /\ arg.kind = "noAnswers"
  /\ arg.response[6] = 2
  /\ SubSeq(arg.response, 13, Len(arg.response)) = <<192, 97, 1>>
  /\ out = <<3600>>

\* A response is the query but for its flags and its answer count.
SameButFlags(response, query, flags, ancount) ==
  /\ Len(response) >= Len(query)
  /\ \A i \in 1..Len(query) :
       response[i] = (CASE i = 3 -> flags \div 256
                        [] i = 4 -> flags % 256
                        [] i = 7 -> ancount \div 256
                        [] i = 8 -> ancount % 256
                        [] OTHER -> query[i])

\* C28: CreateNullResponse returns the query with flags 0x8180 and one answer counted,
\* and 16 bytes after it: the pointer C0 0C, type 1, class 1, the TTL 60 in four bytes,
\* RDLENGTH 4 and 0.0.0.0; ExtractTTL of it is 60 when the query has its question.
C28_NullResponseRecord ==
  (arg.fn = "CreateNullResponse" /\ out # NoOut)
    => /\ Len(out[1]) = Len(arg.query) + 16
       /\ SameButFlags(out[1], arg.query, 33152, 1)
       /\ SubSeq(out[1], Len(arg.query) + 1, Len(arg.query) + 16)
            = <<192, 12, 0, 1, 0, 1, 0, 0, 0, 60, 0, 4, 0, 0, 0, 0>>
       /\ Len(arg.query) > 12 => ExtractTTL(out[1]) = 60

\* What the code has in place of C28: the same, but the four bytes of the TTL are
\* 00 3C 00 00, and ExtractTTL of the response is 3600.
C28_NullResponseAsCoded ==
  (arg.fn = "CreateNullResponse" /\ out # NoOut)
    => /\ Len(out[1]) = Len(arg.query) + 16
       /\ SameButFlags(out[1], arg.query, 33152, 1)
       /\ SubSeq(out[1], Len(arg.query) + 1, Len(arg.query) + 16)
            = <<192, 12, 0, 1, 0, 1, 0, 60, 0, 0, 0, 4, 0, 0, 0, 0>>
       /\ Len(arg.query) > 12 => ExtractTTL(out[1]) = 3600

\* C29: CreateBlockedResponse returns a buffer as long as the query and equal to it but
\* for the flags, 0x8183, and the answer count, 0; the query stays as it was.
C29_BlockedResponseFrame ==
  /\ [](arg.fn = "CreateBlockedResponse" /\ out # NoOut
          => Len(out[1]) = Len(arg.query) /\ SameButFlags(out[1], arg.query, 33155, 0))
  /\ [][arg.fn = "CreateBlockedResponse" => arg' = arg]_vars

\* Of a query for "a.b" with ID 0x1234, all flags set and two answers counted came a
\* response with the same ID and question, the flags 0x8183 and no answer counted.
C29_Witness ==
  /\ arg.fn = "CreateBlockedResponse" /\ out # NoOut
  /\ arg.query = Header(4660, 65535, 1, 2)
                   \o <<1, 97, 1, 98, 0, 0, 1, 0, 1>>
  /\ out[1] = <<18, 52, 129, 131, 0, 1, 0, 0, 0, 0, 0, 0, 1, 97, 1, 98, 0, 0, 1, 0, 1>>

(***************************************************************************)
(* Claims about NewUpstreamResolver.                                       *)
(***************************************************************************)
\* C30: of a list with commas NewUpstreamResolver makes one address for each element, in
\* the order of the list, each the element without the white space around it and ":53"
\* after it, once; the timeout is 5 seconds.
C30_OneAddressPerElement ==
  (arg.fn = "NewUpstreamResolver" /\ out # NoOut)
    => /\ out[1].upstreamAddrs
            = [i \in 1..Len(arg.elements) |-> arg.elements[i].core \o <<58, 53, 51>>]
       /\ out[1].timeout = 5

\* " 1:53,\t 1 1 " gave "1:53:53" and "1 1:53".
C30_Witness ==
  /\ arg.fn = "NewUpstreamResolver" /\ out # NoOut
  /\ arg.upstream = <<32, 49, 58, 53, 51, 44, 9, 32, 49, 32, 49, 32>>
  /\ out[1].upstreamAddrs = <<(<<49, 58, 53, 51, 58, 53, 51>>), (<<49, 32, 49, 58, 53, 51>>)>>
(***************************************************************************)
(* Further claims about the cache.                                         *)
(***************************************************************************)
\* The entry is popular and its age has reached 80% of its original TTL.
DueForPrefetch(e, nw) ==
  e.popularity >= POPULARITY_THRESHOLD
    /\ (nw - e.CreatedAt) * PREFETCH_DEN >= e.originalTTL * PREFETCH_NUM

\* C31: a Get that returns found=true returns the cached response, with needsRefresh
\* true whenever the entry is past its expires-at or is popular with an age of at least
\* 80% of its TTL, and so with needsRefresh false only for an entry that is still fresh
\* and not due for prefetch; the instant now = expires-at + grace period is no exception.
C31_RefreshWhenPastExpiry ==
  (last.op = "Get" /\ last.found)
    => LET e == entries[last.key]
       IN /\ last.resp = e.Response
          /\ (now > e.ExpiresAt \/ DueForPrefetch(e, now)) => last.needsRefresh
          /\ ~last.needsRefresh => (now <= e.ExpiresAt /\ ~DueForPrefetch(e, now))

\* What the code does: needsRefresh is true when the time the Get read on entry (which
\* it has stored as the last access) is past the expires-at and before expires-at +
\* grace period, or when the entry is due for prefetch at the time of the second
\* section; the entry was not past expires-at + grace period when the Get read the
\* time on entry, and at the instant expires-at + grace period it is found and only
\* prefetch can ask for a refresh.
C31_RefreshAsCoded ==
  (last.op = "Get" /\ last.found)
    => LET e == entries[last.key]
           entered == e.LastAccess
       IN /\ last.resp = e.Response
          /\ entered <= e.ExpiresAt + GRACE_PERIOD
          /\ last.needsRefresh
               <=> \/ (entered > e.ExpiresAt /\ entered < e.ExpiresAt + GRACE_PERIOD)
                   \/ DueForPrefetch(e, now)

\* Gets were answered with needsRefresh for a popular entry at its expires-at, and
\* without it for a popular entry younger than 80% of its TTL.
C31_PrefetchSeen ==
  /\ last.op = "Get" /\ last.found /\ last.needsRefresh
  /\ now = entries[last.key].ExpiresAt
  /\ entries[last.key].originalTTL = 1

\* Some Get takes its delete step.
GetDeletes == \E t \in Tasks : tpc[t] = "delete" /\ tpc'[t] = "idle"

\* C32: under any interleaving of Get, Set and Clean on one key, the delete step of a Get
\* removes from the map only an entry that is fully expired, never a fresh entry that a
\* Set stored between the lookup of this Get and its delete.
C32_GetDeletesOnlyExpired ==
  [][\A k \in AllKeys :
       (GetDeletes /\ entries[k] # NoEntry /\ entries'[k] = NoEntry)
         => IsCompletelyExpired(entries[k], now)]_vars

\* What the code does: the delete step removes whatever the map holds under the key of
\* the Get, and nothing else.
C32_GetDeletesByKey ==
  [][\A t \in Tasks :
       (tpc[t] = "delete" /\ tpc'[t] = "idle")
         => entries' = [entries EXCEPT ![tkey[t]] = NoEntry]]_vars

\* C33: Set(key, response, ttl) leaves under key the entry with created-at = now,
\* expires-at = now + ttl, popularity 1, last-access = now and the new response, nothing
\* of the previous entry being kept; when the key was present no entry is evicted, even
\* with the cache at capacity, and every other entry is as it was.
C33_SetOverwrites ==
  /\ [](last.op = "Set"
         => entries[last.key] =
              [Response |-> last.resp, CreatedAt |-> now, ExpiresAt |-> now + last.ttl,
               LastAccess |-> now, popularity |-> 1, originalTTL |-> last.ttl])
  /\ [][(last'.op = "Set" /\ entries[last'.key] # NoEntry)
         => \A k \in AllKeys \ {last'.key} : entries'[k] = entries[k]]_vars

\* With the cache at capacity, a key that was present and had been read was set again,
\* with another response, a later time and another TTL, beside an entry that had been
\* read.
C33_Witness ==
  /\ last.op = "Set" /\ last.pre # "absent"
  /\ Size(entries) = maxSize
  /\ now > 0
  /\ last.ttl > 0
  /\ \E k \in Present(entries) \ {last.key} : entries[k].popularity > 1

\* Task t takes the step of Get that counts its read of the entry it found, and the
\* step that stores the time of the read.
Counts(t) == tpc[t] = "touch" /\ tpc'[t] = "store"
Stores(t) == tpc[t] = "store" /\ tpc'[t] = "test"

\* Task t enters Get and reads the clock, or takes the step of a Get that does not find
\* its key in the map.
Enters(t) == tpc[t] = "idle" /\ tpc'[t] = "lookup"
Misses(t) == tpc[t] = "lookup" /\ tpc'[t] = "idle"

\* The step is a Set of key k: no Get moves, and the map has another entry under k.
SetsKey(k) == tpc' = tpc /\ entries'[k] # NoEntry /\ entries'[k] # entries[k]

C34_GetStep ==
  /\ \A t \in Tasks :
       /\ (Counts(t) /\ tref[t] = "map")
            => entries'[tkey[t]] = [entries[tkey[t]] EXCEPT !.popularity = @ + 1]
       /\ (Stores(t) /\ tref[t] = "map")
            => entries'[tkey[t]] = [entries[tkey[t]] EXCEPT !.LastAccess = tnow[t]]
       /\ (tpc[t] = "test" /\ tpc'[t] # "test") => entries' = entries
  /\ \A t \in Tasks : (Enters(t) \/ Misses(t)) => (entries' = entries /\ dead' = dead)
  /\ \A k \in AllKeys :
       (entries[k] # NoEntry /\ entries'[k] # NoEntry /\ ~SetsKey(k))
         => entries'[k].popularity >= entries[k].popularity

\* C34: a Get that finds its key in the map adds exactly one to the popularity of the
\* entry and sets its last-access to the time the Get read on entry, even when it then
\* judges the entry fully expired; from one Set of a key to the next the popularity of
\* its entry never decreases and is at least 1; a Get that misses changes nothing.
C34_PopularityCounts ==
  /\ [](\A k \in AllKeys : entries[k] # NoEntry => entries[k].popularity >= 1)
  /\ [][C34_GetStep]_vars

\* A Get has counted its read of an entry, which it has judged fully expired and is
\* about to delete.
C34_Witness ==
  \E t \in Tasks :
    /\ tpc[t] = "delete"
    /\ entries[tkey[t]] # NoEntry
    /\ entries[tkey[t]].popularity = 2
    /\ entries[tkey[t]].LastAccess = tnow[t]
    /\ IsCompletelyExpired(entries[tkey[t]], now)

(***************************************************************************)
(* Further claims about the server.                                        *)
(***************************************************************************)
\* Task h takes the step in which it calls Set.
SetsBy(h) == hpc[h] = "set" /\ hpc'[h] = "write"

\* Both tasks missed the cache for one key, resolved, stored and replied.
BothMissed(h1, h2) ==
  /\ h1 # h2
  /\ hpc[h1] = "done" /\ hpc[h2] = "done"
  /\ hout[h1] = "fresh" /\ hout[h2] = "fresh"
  /\ KeyOfQuery(h1) = KeyOfQuery(h2)

Called(h, step) == \E i \in 1..Len(hsteps[h]) : hsteps[h][i] = step

C35_SetStep ==
  /\ \A h \in Handlers : SetsBy(h) => entries'[KeyOfQuery(h)].Response = hresp[h]
  /\ \A k \in AllKeys :
       (entries[k] # NoEntry /\ ~\E h \in Handlers : SetsBy(h) /\ KeyOfQuery(h) = k)
         => (entries'[k] # NoEntry /\ entries'[k].Response = entries[k].Response)

\* C35: two query tasks that miss the cache for one key at the same time both call the
\* resolver, and when both have finished the cache holds the entry of that key with the
\* response of the task whose Set came last: every Set writes the response of its task,
\* and nothing but a Set of the key changes the response.
C35_LastWriterWins ==
  /\ [](\A h1, h2 \in Handlers :
          BothMissed(h1, h2)
            => /\ Called(h1, "resolver") /\ Called(h2, "resolver")
               /\ entries[KeyOfQuery(h1)] # NoEntry
               /\ entries[KeyOfQuery(h1)].Response \in {hresp[h1], hresp[h2]})
  /\ [][C35_SetStep]_vars

\* Two tasks have missed for one key and stored different responses; the cache holds the
\* response of the second.
C35_Witness ==
  /\ BothMissed(1, 2)
  /\ hresp[1] # hresp[2]
  /\ entries[KeyOfQuery(1)].Response = hresp[2]

(***************************************************************************)
(* Further claims about the resolver.                                      *)
(***************************************************************************)
\* C36: on every return path of Resolve after queryCtx was derived (a result, the end
\* of the parent context, the overall timeout), queryCtx is cancelled by the time Resolve
\* returns, so that no goroutine is left with a context that is never cancelled.
C36_CancelledOnEveryReturn ==
  (rpc = "done" /\ callCtx = NoErr) => QueryCtxDone

\* What the code does: cancel() has been called exactly when Resolve has returned a
\* result; after the timeout queryCtx ends only when the parent context does, and no
\* goroutine waits at its select, the channel having room for every result.
C36_CancelOnResultOnly ==
  /\ cancelled <=> (rpc = "done" /\ rerr = NoErr)
  /\ (rpc = "done" /\ rerr \in CtxErrors) => QueryCtxDone
  /\ \A u \in Upstreams : apc[u] = "send" => Len(responseChan) < Capacity

\* Task h takes the step in which its Get returns the entry it holds, and the step in
\* which it is served from the cache: its reply is built from the bytes Get returned.
ReturnsHit(h) == hpc[h] = "touch" /\ hpc'[h] = "hit"
HitsBy(h) == hpc[h] = "hit" /\ hpc'[h] = "write"

\* Task h, served from the cache, takes the step in which it writes its reply.
WritesHit(h) == hpc[h] = "write" /\ hpc'[h] = "done" /\ hout[h] = "hit"

C37_HitStep ==
  \A h \in Handlers :
    /\ ReturnsHit(h)
         => /\ \A k \in AllKeys :
                 /\ entries'[k].Response = entries[k].Response
                 /\ k # KeyOfQuery(h) => entries'[k] = entries[k]
            /\ \A u \in Readers : dead'[u] # NoEntry => dead'[u].Response = dead[u].Response
            /\ ret'[ReaderOf(h)].resp = Deref(ReaderOf(h)).Response
    /\ HitsBy(h)
         => LET cached == ret[ReaderOf(h)].resp
            IN /\ entries' = entries
               /\ dead' = dead
               /\ SubSeq(hresp'[h], 1, 2) = SubSeq(hquery[h], 1, 2)
               /\ SubSeq(hresp'[h], 3, Len(cached)) = SubSeq(cached, 3, Len(cached))
    /\ WritesHit(h)
         => /\ entries' = entries
            /\ wire' = Append(wire, [h |-> h, data |-> hresp[h], ctxErr |-> ctxErr])

\* C37: serving a cache hit leaves the cached response bytes as they are: the ID of the
\* query goes into a copy, so tasks that hit one key at the same time with different IDs
\* each send the cached answer under their own ID, and the bytes of the stored entry are
\* the same before and after.
C37_HitKeepsCachedBytes ==
  [][C37_HitStep]_vars

\* Two tasks with different IDs have been served from the cache under one key and are
\* both about to write; the entry holds the ID of the task that stored it.
C37_Witness ==
  /\ hpc[1] = "write" /\ hpc[2] = "write"
  /\ hout[1] = "hit" /\ hout[2] = "hit"
  /\ KeyOfQuery(1) = KeyOfQuery(2)
  /\ SubSeq(hresp[1], 1, 2) = SubSeq(hquery[1], 1, 2)
  /\ SubSeq(hresp[2], 1, 2) = SubSeq(hquery[2], 1, 2)
  /\ SubSeq(hresp[1], 1, 2) # SubSeq(hresp[2], 1, 2)
  /\ SubSeq(entries[KeyOfQuery(1)].Response, 1, 2) # SubSeq(hresp[2], 1, 2)

(***************************************************************************)
(* Further claims about the filter.                                        *)
(***************************************************************************)
\* C38: for every string d, in any letter case, with or without white space around it
\* or a dot at its end, IsBlocked(d) called after Add(d) returns true.
C38_AddedIsBlocked ==
  [][(arg.fn = "Add" /\ arg'.fn = "IsBlocked" /\ arg'.domain = arg.domain)
       => out' = <<TRUE>>]_vars

\* What the code does: IsBlocked(d) after Add(d) is true when d without the white space
\* around it has no dot at its end, d in any letter case.
C38_AddedWithoutDotIsBlocked ==
  [][(arg.fn = "Add" /\ arg'.fn = "IsBlocked" /\ arg'.domain = arg.domain
        /\ TrimSuffixDot(TrimSpace(arg.domain)) = TrimSpace(arg.domain))
       => out' = <<TRUE>>]_vars

\* " A" was added and then found blocked.
C38_UpperCaseSeen ==
  /\ arg = [fn |-> "IsBlocked", domain |-> <<32, 65>>]
  /\ fdomains = {<<97>>}
  /\ out = <<TRUE>>

\* The number of dots of a string.
Dots(str) == Cardinality({i \in 1..Len(str) : str[i] = 46})

\* A pass of the loop that goes on leaves a candidate that is the part of the former one
\* after its first dot, and so shorter.
C39_PassShortens ==
  (arg.fn = "IsBlocked" /\ arg'.fn = "IsBlocked" /\ arg'.passes = arg.passes + 1
     /\ out' = NoOut)
    => /\ Len(arg'.candidate) < Len(arg.candidate)
       /\ \E i \in 1..Len(arg.candidate) :
            /\ arg.candidate[i] = 46
            /\ \A j \in 1..(i - 1) : arg.candidate[j] # 46
            /\ arg'.candidate = SubSeq(arg.candidate, i + 1, Len(arg.candidate))

\* C39: IsBlocked terminates for every string and every set: a pass of its loop that
\* finds a dot goes on with the part after the first dot, a shorter string, so the loop
\* goes on at most once for each dot of the normalized argument, strings that begin
\* with a dot or have two dots in a row included; IsBlocked and Count leave the set as
\* it is.
C39_IsBlockedTerminates ==
  /\ [](arg.fn = "IsBlocked" => arg.passes <= Dots(Normalized(arg.domain)) + 1)
  /\ [][C39_PassShortens]_vars
  /\ [][fdomains' = fdomains]_vars
  /\ (arg.fn = "IsBlocked" /\ out = NoOut) ~> (out # NoOut)

\* What the code settles: no step of IsBlocked or Count changes the set, a pass that
\* goes on leaves what is left of the candidate after some of its bytes, and the loop
\* returns what IsBlocked returns as one call for some values of i.
C39_LoopAsCoded ==
  /\ [][fdomains' = fdomains]_vars
  /\ [][(arg.fn = "IsBlocked" /\ arg'.fn = "IsBlocked" /\ arg'.passes = arg.passes + 1)
         => \E k \in 0..Len(arg.candidate) :
              arg'.candidate = SubSeq(arg.candidate, k + 1, Len(arg.candidate))]_vars
  /\ []((arg.fn = "IsBlocked" /\ out # NoOut)
          => \E indexes \in IndexSeqs(Len(arg.domain)) :
               out = IsBlocked(fdomains, arg.domain, indexes))

\* IsBlocked(".a") is in its third pass on the list of "a", its candidate still ".a".
C39_SameCandidateSeen ==
  /\ arg.fn = "IsBlocked" /\ arg.domain = <<46, 97>>
  /\ fdomains = {<<97>>}
  /\ out = NoOut
  /\ arg.passes = 2 /\ arg.candidate = <<46, 97>>

(***************************************************************************)
(* Further claims about the codec.                                         *)
(***************************************************************************)
\* An access that stays inside a buffer of n bytes.
Inside(r, n) == 0 <= r.lo /\ r.lo <= r.hi /\ r.hi <= n

\* What ParseQuery returns: a QueryInfo with no error, or one of its three errors.
ParseQueryReturns(r) ==
  \/ r[2] = NoErr /\ r[1].CacheKey = r[1].Domain \o <<58>> \o Decimal(r[1].QType)
  \/ r[2] \in {ErrTooShort, ErrDomainLength, ErrNoTypeClass} /\ r[1] = NoQueryInfo

\* C40: ParseQuery and ExtractTTL are total: on every buffer (of any length, with any
\* label lengths, pointers anywhere, the last byte included, any counts of questions and
\* answers and any RDLENGTH) they return a value or an error and never access the
\* buffer outside its bytes.
C40_Total ==
  out # NoOut
    => /\ \A r \in out[2] : Inside(r, Len(arg.buffer))
       /\ arg.fn = "ParseQuery" => ParseQueryReturns(out[1])
       /\ arg.fn = "ExtractTTL" => out[1] \in 0..3600

\* ExtractTTL has returned on a response cut in the middle of the pointer that names its
\* answer: skipName has read the last byte of the buffer and has stepped two bytes on.
C40_Witness ==
  /\ arg.fn = "ExtractTTL"
  /\ Len(arg.buffer) > 12
  /\ arg.buffer[Len(arg.buffer)] = 192
  /\ out # NoOut
  /\ Index(Len(arg.buffer) - 1) \in out[2]
  /\ out[1] = 3600
====
